---- MODULE Spec2Model ----
(***************************************************************************)
(* Win-rate driver analysis: the metric library (src/src/metrics.py) and   *)
(* the driver-scoring engine (src/src/decision_engine.py).                 *)
(*                                                                         *)
(* A DataFrame is a record [cols, rows]: the set of column names and the   *)
(* sequence of rows, each row a record over the columns.  Floats are exact *)
(* rationals <<num, den>> in lowest terms with den > 0; NaN is <<0, 0>>.   *)
(* Coefficients are integers in units of 0.01, so a WRDS is a rational in  *)
(* the same unit.  An Optional value is a sequence of length at most one.  *)
(***************************************************************************)
EXTENDS Integers, Sequences, FiniteSets, TLC

\* ---------------------------------------------------------------- bounds
MaxQuarter == 4
MaxWindowRows == 4
MaxWindow == 2
MaxTrendRows == 9
MaxExposureRows == 3
MaxAmount == 2
MaxTopN == 2
MaxLossRows == 5
MaxLossTopN == 4
MaxFrictionRows == 4
MaxDays == 2
MaxEncRows == 2
MaxCompareRows == 2
MaxValidateRows == 2
MaxUpper == 2
MaxDerivedRows == 2

\* ------------------------------------------------------------- rationals
Abs(x) == IF x < 0 THEN -x ELSE x

Min2(a, b) == IF a < b THEN a ELSE b

Max2(a, b) == IF a > b THEN a ELSE b

RECURSIVE GCD(_, _)
GCD(a, b) == IF b = 0 THEN a ELSE GCD(b, a % b)

Rat(n, d) ==
    LET g == GCD(Abs(n), Abs(d))
        s == IF d < 0 THEN -1 ELSE 1
    IN  <<(s * n) \div g, (s * d) \div g>>

NaN == <<0, 0>>

IsNaN(x) == x[2] = 0

Zero == <<0, 1>>

One == <<1, 1>>

RAdd(x, y) == IF IsNaN(x) \/ IsNaN(y) THEN NaN ELSE Rat(x[1] * y[2] + y[1] * x[2], x[2] * y[2])

RSub(x, y) == IF IsNaN(x) \/ IsNaN(y) THEN NaN ELSE Rat(x[1] * y[2] - y[1] * x[2], x[2] * y[2])

RMul(x, y) == IF IsNaN(x) \/ IsNaN(y) THEN NaN ELSE Rat(x[1] * y[1], x[2] * y[2])

RDivInt(x, n) == IF IsNaN(x) THEN NaN ELSE Rat(x[1], x[2] * n)

\* IEEE comparisons: every comparison with NaN is false.
RLt(x, y) == ~IsNaN(x) /\ ~IsNaN(y) /\ x[1] * y[2] < y[1] * x[2]

RGt(x, y) == RLt(y, x)

RLe(x, y) == ~IsNaN(x) /\ ~IsNaN(y) /\ x[1] * y[2] <= y[1] * x[2]

\* ------------------------------------------------------ Python / pandas
None == <<>>

Some(x) == <<x>>

\* seq[start:] with Python's negative-index rule (note -0 = 0).
PySliceFrom(s, start) ==
    LET n == Len(s)
        lo == IF start < 0 THEN Max2(n + start, 0) ELSE Min2(start, n)
    IN  SubSeq(s, lo + 1, n)

\* seq[start:stop]
PySlice(s, start, stop) ==
    LET n == Len(s)
        lo == IF start < 0 THEN Max2(n + start, 0) ELSE Min2(start, n)
        hi == IF stop < 0 THEN Max2(n + stop, 0) ELSE Min2(stop, n)
    IN  SubSeq(s, lo + 1, hi)

Range(s) == {s[i] : i \in 1..Len(s)}

RECURSIVE SortedInts(_)
SortedInts(S) ==
    IF S = {} THEN <<>>
    ELSE LET m == CHOOSE x \in S : \A y \in S : x <= y
         IN  <<m>> \o SortedInts(S \ {m})

\* DataFrame.head(n) / DataFrame.tail(n) for n >= 0
DfHead(s, n) == SubSeq(s, 1, Min2(n, Len(s)))

DfTail(s, n) == SubSeq(s, Len(s) - Min2(n, Len(s)) + 1, Len(s))

\* df[col].unique()
Unique(df, col) == {df.rows[i][col] : i \in 1..Len(df.rows)}

\* df[df[col].isin(values)]
WhereIn(df, col, values) ==
    [cols |-> df.cols, rows |-> SelectSeq(df.rows, LAMBDA r : r[col] \in values)]

\* df[df[col] == value]
WhereEq(df, col, value) == WhereIn(df, col, {value})

RECURSIVE SumAmount(_)
SumAmount(rows) ==
    IF rows = <<>> THEN 0 ELSE Head(rows).deal_amount + SumAmount(Tail(rows))

\* (x['outcome'] == 'Won').sum()
WonCount(rows) == Len(SelectSeq(rows, LAMBDA r : r.outcome = "Won"))

\* A pandas Series of floats: a function from index labels to values.
EmptySeries == [s \in {} |-> NaN]

\* groupby(segment_col).apply(lambda x: (x['outcome'] == 'Won').sum() / len(x));
\* no groups, no entries
WinRateBySegment(df, segment_col) ==
    [s \in Unique(df, segment_col) |->
        LET g == WhereEq(df, segment_col, s).rows
        IN  Rat(WonCount(g), Len(g))]

\* a - b on two Series: aligned on the union of the indexes, NaN where either is missing
SeriesSub(a, b) ==
    [s \in DOMAIN a \cup DOMAIN b |->
        IF s \in DOMAIN a /\ s \in DOMAIN b THEN RSub(a[s], b[s]) ELSE NaN]

RECURSIVE SumOver(_, _)
SumOver(ser, S) ==
    IF S = {} THEN Zero
    ELSE LET s == CHOOSE x \in S : TRUE
         IN  RAdd(ser[s], SumOver(ser, S \ {s}))

\* Series.mean(): NaN entries are skipped; NaN when nothing is left
SeriesMean(ser) ==
    LET valid == {s \in DOMAIN ser : ~IsNaN(ser[s])}
    IN  IF valid = {} THEN NaN ELSE RDivInt(SumOver(ser, valid), Cardinality(valid))

\* ------------------------------------------------------------ metrics.py
\* sorted(df[time_period_col].unique())
SortedPeriods(df, time_period_col) == SortedInts(Unique(df, time_period_col))

\* variant: <= in place of <
NotEnoughPeriodsLe(periods, recent_quarters, previous_quarters) ==
    Len(periods) <= recent_quarters + previous_quarters

\* variant: the early return is missing
NotEnoughPeriodsNever(periods, recent_quarters, previous_quarters) == FALSE

\* len(periods) < recent_quarters + previous_quarters
NotEnoughPeriods(periods, recent_quarters, previous_quarters) ==
    Len(periods) < recent_quarters + previous_quarters

\* variant: the recent window starts one period early
RecentPeriodsOverlap(periods, recent_quarters) == PySliceFrom(periods, -(recent_quarters + 1))

\* periods[-recent_quarters:]
RecentPeriods(periods, recent_quarters) == PySliceFrom(periods, -recent_quarters)

\* periods[-(recent_quarters + previous_quarters):-recent_quarters]
PreviousPeriods(periods, recent_quarters, previous_quarters) ==
    PySlice(periods, -(recent_quarters + previous_quarters), -recent_quarters)

win_rate_delta_by_segment(df, segment_col, time_period_col, recent_quarters, previous_quarters) ==
    LET periods == SortedPeriods(df, time_period_col)
    IN  IF NotEnoughPeriods(periods, recent_quarters, previous_quarters)
        THEN EmptySeries
        ELSE LET recent_periods == RecentPeriods(periods, recent_quarters)
                 previous_periods == PreviousPeriods(periods, recent_quarters, previous_quarters)
                 recent_data == WhereIn(df, time_period_col, Range(recent_periods))
                 previous_data == WhereIn(df, time_period_col, Range(previous_periods))
                 recent_wr == WinRateBySegment(recent_data, segment_col)
                 previous_wr == WinRateBySegment(previous_data, segment_col)
             IN  SeriesSub(recent_wr, previous_wr)

\* The two period windows the call works on (its locals recent_periods and
\* previous_periods); both empty when the call returns early.
WindowsOf(df, time_period_col, recent_quarters, previous_quarters) ==
    LET periods == SortedPeriods(df, time_period_col)
    IN  IF NotEnoughPeriods(periods, recent_quarters, previous_quarters)
        THEN [recent_periods |-> <<>>, previous_periods |-> <<>>]
        ELSE [recent_periods |-> RecentPeriods(periods, recent_quarters),
              previous_periods |-> PreviousPeriods(periods, recent_quarters, previous_quarters)]

\* All orders in which sort_values(ascending=False) may leave the elements of S:
\* descending by key, ties in any order (the default sort is not stable).
SortedDescending(S, key(_)) ==
    {p \in [1..Cardinality(S) -> S] :
        /\ \A i, j \in 1..Cardinality(S) : i # j => p[i] # p[j]
        /\ \A i, j \in 1..Cardinality(S) : i < j => RLe(key(p[j]), key(p[i]))}

\* variant: the outcome filter is missing
LossesAllRows(df) == df

\* losses = df[df['outcome'] == 'Lost']
Losses(df) == WhereEq(df, "outcome", "Lost")

\* losses.groupby(segment_col).size()
SegmentLossCounts(df, segment_col) ==
    LET losses == Losses(df)
    IN  [s \in Unique(losses, segment_col) |-> Len(WhereEq(losses, segment_col, s).rows)]

RECURSIVE SumCounts(_, _)
SumCounts(counts, segs) ==
    IF segs = <<>> THEN 0 ELSE counts[Head(segs)] + SumCounts(counts, Tail(segs))

\* variant: the segments are ranked ascending, so the head holds the smallest
loss_concentration_ratio_smallest(df, segment_col, top_n, ranked) ==
    LET total_losses == Len(Losses(df).rows)
    IN  IF total_losses = 0
        THEN [top_segments |-> <<>>, concentration_ratio |-> Zero,
              segment_loss_pct |-> EmptySeries]
        ELSE LET counts == SegmentLossCounts(df, segment_col)
                 top_segments == DfTail(ranked, top_n)
                 top_loss_count == SumCounts(counts, top_segments)
             IN  [top_segments |-> top_segments,
                  concentration_ratio |-> Rat(top_loss_count, total_losses),
                  segment_loss_pct |-> [s \in DOMAIN counts |-> Rat(counts[s] * 100, total_losses)]]

\* loss_concentration_ratio, given the order `ranked` that sort_values left the
\* segments in.
loss_concentration_ratio(df, segment_col, top_n, ranked) ==
    LET total_losses == Len(Losses(df).rows)
    IN  IF total_losses = 0
        THEN [top_segments |-> <<>>, concentration_ratio |-> Zero,
              segment_loss_pct |-> EmptySeries]
        ELSE LET counts == SegmentLossCounts(df, segment_col)
                 top_segments == DfHead(ranked, top_n)
                 top_loss_count == SumCounts(counts, top_segments)
             IN  [top_segments |-> top_segments,
                  concentration_ratio |-> Rat(top_loss_count, total_losses),
                  segment_loss_pct |-> [s \in DOMAIN counts |-> Rat(counts[s] * 100, total_losses)]]

\* x / y on numpy floats where y = 0 is reached only with x = 0: nan
RDiv(x, y) ==
    IF IsNaN(x) \/ IsNaN(y) \/ y[1] = 0 THEN NaN ELSE Rat(x[1] * y[2], x[2] * y[1])

\* Series.median() of a column of whole numbers (NaN when the Series is empty)
Median(vals) ==
    IF vals = <<>> THEN NaN
    ELSE LET sorted == SortSeq(vals, LAMBDA a, b : a < b)
             n == Len(sorted)
         IN  IF n % 2 = 1 THEN Rat(sorted[(n + 1) \div 2], 1)
             ELSE Rat(sorted[n \div 2] + sorted[n \div 2 + 1], 2)

\* group[group['outcome'] == outcome]['sales_cycle_days'].median()
MedianCycle(rows, outcome) ==
    LET sel == SelectSeq(rows, LAMBDA r : r.outcome = outcome)
    IN  Median([i \in 1..Len(sel) |-> sel[i].sales_cycle_days])

\* variant: won median over lost median
calc_dfi_inverted(rows) ==
    LET lost_median == MedianCycle(rows, "Lost")
        won_median == MedianCycle(rows, "Won")
    IN  IF IsNaN(won_median) \/ won_median = Zero THEN NaN
        ELSE IF IsNaN(lost_median) THEN NaN
        ELSE RDiv(won_median, lost_median)

\* deal_friction_index, lines 61-70 and 74-82: the index of one group of deals
calc_dfi(rows) ==
    LET lost_median == MedianCycle(rows, "Lost")
        won_median == MedianCycle(rows, "Won")
    IN  IF IsNaN(won_median) \/ won_median = Zero THEN NaN
        ELSE IF IsNaN(lost_median) THEN NaN
        ELSE RDiv(lost_median, won_median)

\* deal_friction_index(df, groupby_cols): a Series over the groups when
\* grouped, a float otherwise
deal_friction_index(df, groupby_cols) ==
    IF groupby_cols # None
    THEN [s \in Unique(df, groupby_cols[1]) |-> calc_dfi(WhereEq(df, groupby_cols[1], s).rows)]
    ELSE calc_dfi(df.rows)

\* x[x['outcome'] == 'Won']['deal_amount'].sum()
WonAmount(rows) == SumAmount(SelectSeq(rows, LAMBDA r : r.outcome = "Won"))

\* revenue_weighted_win_rate(df, groupby_cols): won_acv / total_acv, a Series
\* over the groups when grouped, a float otherwise; the sums are numpy
\* numbers, so 0 / 0 is nan and nothing is raised
revenue_weighted_win_rate(df, groupby_cols) ==
    IF groupby_cols # None
    THEN [s \in Unique(df, groupby_cols[1]) |->
            LET g == WhereEq(df, groupby_cols[1], s).rows
            IN  RDiv(Rat(WonAmount(g), 1), Rat(SumAmount(g), 1))]
    ELSE RDiv(Rat(WonAmount(df.rows), 1), Rat(SumAmount(df.rows), 1))

\* win_rate(df, groupby_cols): wins / total; ungrouped, wins is a numpy
\* integer and total is len(df), so on no rows it is 0 / 0 = nan
win_rate(df, groupby_cols) ==
    IF groupby_cols # None
    THEN [s \in Unique(df, groupby_cols[1]) |->
            LET g == WhereEq(df, groupby_cols[1], s).rows
            IN  RDiv(Rat(WonCount(g), 1), Rat(Len(g), 1))]
    ELSE RDiv(Rat(WonCount(df.rows), 1), Rat(Len(df.rows), 1))

\* ---------------------------------------------------- decision_engine.py
\* prepare_features: categorical_features, numerical_features
CategoricalFeatures ==
    <<"industry", "region", "product_type", "lead_source", "deal_stage", "acv_bucket", "cycle_bucket">>

NumericalFeatures == <<"deal_amount", "sales_cycle_days">>

\* max of a Series (NaN when empty)
SeriesMax(ser) ==
    IF DOMAIN ser = {} THEN NaN
    ELSE ser[CHOOSE s \in DOMAIN ser : \A t \in DOMAIN ser : RLe(ser[t], ser[s])]

SeriesMin(ser) ==
    IF DOMAIN ser = {} THEN NaN
    ELSE ser[CHOOSE s \in DOMAIN ser : \A t \in DOMAIN ser : RLe(ser[s], ser[t])]

\* df.groupby(feature_name)['deal_amount'].sum() / total_acv
ExposureByCategory(df, feature_name, total_acv) ==
    [s \in Unique(df, feature_name) |->
        Rat(SumAmount(WhereEq(df, feature_name, s).rows), total_acv)]

\* calculate_revenue_exposure, line 199: the features treated as categorical
ExposureCategorical ==
    {"acv_bucket", "industry", "region", "product_type", "lead_source", "deal_stage", "cycle_bucket"}

\* variant: the smallest share in place of the largest
calculate_revenue_exposure_min(df, feature_name) ==
    IF feature_name \notin df.cols THEN Zero
    ELSE IF feature_name \in ExposureCategorical
         THEN LET total_acv == SumAmount(df.rows)
              IN  IF total_acv = 0 THEN Zero
                  ELSE SeriesMin(ExposureByCategory(df, feature_name, total_acv))
         ELSE One

\* calculate_revenue_exposure(df, feature_name)
calculate_revenue_exposure(df, feature_name) ==
    IF feature_name \notin df.cols THEN Zero
    ELSE IF feature_name \in ExposureCategorical
         THEN LET total_acv == SumAmount(df.rows)
              IN  IF total_acv = 0 THEN Zero
                  ELSE SeriesMax(ExposureByCategory(df, feature_name, total_acv))
         ELSE One

\* calculate_recent_trend: the window sizes and the two thresholds
RecentQuarters == 2

PreviousQuarters == 2

\* -0.05 and 0.05
DeclineThreshold == <<-1, 20>>

ImprovementThreshold == <<1, 20>>

\* variant: the thresholds are inclusive
TrendDirectionLe(avg_delta) ==
    IF RLe(avg_delta, DeclineThreshold) THEN "worsening"
    ELSE IF RLe(ImprovementThreshold, avg_delta) THEN "improving"
    ELSE "stable"

\* lines 243-248: avg_delta < -0.05, avg_delta > 0.05, else stable
TrendDirection(avg_delta) ==
    IF RLt(avg_delta, DeclineThreshold) THEN "worsening"
    ELSE IF RGt(avg_delta, ImprovementThreshold) THEN "improving"
    ELSE "stable"

StableTrend == [trend_delta |-> Zero, direction |-> "stable"]

\* The fallback of calculate_recent_trend: a column is missing (line 224), or the
\* call of win_rate_delta_by_segment raises because 'outcome' is missing (line 254).
TrendFallback(df, feature_name) ==
    \/ feature_name \notin df.cols
    \/ "created_quarter" \notin df.cols
    \/ "outcome" \notin df.cols

calculate_recent_trend(df, feature_name) ==
    IF TrendFallback(df, feature_name) THEN StableTrend
    ELSE LET wr_delta == win_rate_delta_by_segment(df, feature_name, "created_quarter",
                                                   RecentQuarters, PreviousQuarters)
         IN  IF DOMAIN wr_delta = {} THEN StableTrend
             ELSE LET avg_delta == SeriesMean(wr_delta)
                  IN  [trend_delta |-> avg_delta, direction |-> TrendDirection(avg_delta)]

\* variant: the table of negative coefficients is used for both signs
TrendMultiplierSameForBothSigns(coefficient, direction) ==
    IF direction = "worsening" THEN <<3, 2>>
    ELSE IF direction = "improving" THEN <<4, 5>>
    ELSE One

\* calculate_wrds: the trend multiplier of a coefficient and a trend direction
TrendMultiplier(coefficient, direction) ==
    IF coefficient < 0
    THEN IF direction = "worsening" THEN <<3, 2>>
         ELSE IF direction = "improving" THEN <<4, 5>>
         ELSE One
    ELSE IF direction = "improving" THEN <<3, 2>>
         ELSE IF direction = "worsening" THEN <<4, 5>>
         ELSE One

\* calculate_wrds(feature_name, coefficient, df) on an analyzer whose df_fitted is self_df_fitted
calculate_wrds(self_df_fitted, feature_name, coefficient, df_arg) ==
    LET impact_strength == Rat(Abs(coefficient), 1)
        data == IF df_arg = None THEN self_df_fitted ELSE df_arg
    IN  IF data = None THEN impact_strength
        ELSE LET revenue_exposure == calculate_revenue_exposure(data[1], feature_name)
                 trend_info == calculate_recent_trend(data[1], feature_name)
                 trend_multiplier == TrendMultiplier(coefficient, trend_info.direction)
             IN  RMul(RMul(impact_strength, revenue_exposure), trend_multiplier)

\* prepare_features: feature_cols
FeatureCols(data) == SelectSeq(CategoricalFeatures \o NumericalFeatures, LAMBDA f : f \in data.cols)

\* Category labels in Python's string order.
LabelOrder == <<"A", "B", "Z", "unknown">>

\* LabelEncoder().fit: classes_ is the sorted distinct labels of the column
FitClasses(data, feature) == SelectSeq(LabelOrder, LAMBDA l : l \in Unique(data, feature))

\* variant: 'unknown' is never added to the classes
EncodersWithoutUnknown(encoders, data) ==
    LET present == {f \in Range(CategoricalFeatures) : f \in data.cols}
    IN  [f \in DOMAIN encoders \cup present |->
            IF f \in present /\ f \notin DOMAIN encoders THEN FitClasses(data, f)
            ELSE encoders[f]]

\* variant: every call fits the encoder again
EncodersRefitted(encoders, data) ==
    LET present == {f \in Range(CategoricalFeatures) : f \in data.cols}
    IN  [f \in DOMAIN encoders \cup present |->
            IF f \in present THEN FitClasses(data, f) ELSE encoders[f]]

\* prepare_features, lines 53-74: each categorical column of the dataset gets an
\* encoder the first time; later calls append 'unknown' to its classes.
EncodersAfter(encoders, data) ==
    LET present == {f \in Range(CategoricalFeatures) : f \in data.cols}
    IN  [f \in DOMAIN encoders \cup present |->
            IF f \notin present THEN encoders[f]
            ELSE IF f \notin DOMAIN encoders THEN FitClasses(data, f)
            ELSE IF "unknown" \notin Range(encoders[f]) THEN Append(encoders[f], "unknown")
            ELSE encoders[f]]

\* lines 62-66: the label handed to transform, a value outside the classes the
\* encoder had before the call being replaced by 'unknown'
LabelFor(encoders, feature, value) ==
    IF feature \notin DOMAIN encoders THEN value
    ELSE IF value \in Range(encoders[feature]) THEN value
    ELSE "unknown"

\* LabelEncoder.transform of one label: its position in classes_
CodeOf(classes, label) == (CHOOSE i \in 1..Len(classes) : classes[i] = label) - 1

\* prepare_features(df) on an analyzer whose label_encoders is `encoders`:
\* the encoders after the call, the encoded categorical columns, and whether
\* it raised (transform on a label outside classes_, or no 'is_won' column)
prepare_features(encoders, data) ==
    LET after == EncodersAfter(encoders, data)
        present == {f \in Range(CategoricalFeatures) : f \in data.cols}
        unseen == \E i \in 1..Len(data.rows), f \in present :
                      LabelFor(encoders, f, data.rows[i][f]) \notin Range(after[f])
    IN  [label_encoders |-> after,
         raised |-> unseen \/ "is_won" \notin data.cols,
         feature_cols |-> FeatureCols(data),
         X |-> IF unseen THEN <<>>
               ELSE [i \in 1..Len(data.rows) |->
                        [f \in present |-> CodeOf(after[f], LabelFor(encoders, f, data.rows[i][f]))]]]

\* train_test_split(test_size=0.2): the test set has ceil(0.2 n) rows
TrainTestSplit(n) ==
    [training_samples |-> n - (n + 4) \div 5, test_samples |-> (n + 4) \div 5]

\* fit raises after prepare_features: nothing to scale, or the stratified split
\* and the classifier do not have both outcome classes.
FitRaises(data) ==
    \/ FeatureCols(data) = <<>>
    \/ Unique(data, "outcome") # {"Won", "Lost"}

\* save_model: the dictionary handed to joblib.dump (the classifier, the
\* scaler, the date and the accuracies travel in it the same way)
save_model(a_label_encoders, a_feature_names, a_coefficients, a_training) ==
    [label_encoders |-> a_label_encoders,
     feature_names |-> a_feature_names,
     coefficients |-> a_coefficients,
     training_samples |-> a_training[1].training_samples,
     test_samples |-> a_training[1].test_samples]

\* variant: the encoders of the bundle are not put back
load_model_fresh_encoders(model_data) ==
    [df_fitted |-> None,
     label_encoders |-> [f \in {} |-> <<>>],
     feature_names |-> model_data.feature_names,
     coefficients |-> model_data.coefficients,
     training |-> Some([training_samples |-> model_data.training_samples,
                        test_samples |-> model_data.test_samples])]

\* load_model: a new analyzer (df_fitted is None) given the entries of the
\* dictionary joblib.load returns
load_model(model_data) ==
    [df_fitted |-> None,
     label_encoders |-> model_data.label_encoders,
     feature_names |-> model_data.feature_names,
     coefficients |-> model_data.coefficients,
     training |-> Some([training_samples |-> model_data.training_samples,
                        test_samples |-> model_data.test_samples])]

\* get_drivers, lines 438-456: one record per row of the coefficients table
DriverScores(self_df_fitted, table, include_wrds) ==
    [i \in 1..Len(table) |->
        LET feature == table[i].feature
            coef == table[i].coefficient
            trend_info == IF self_df_fitted # None
                          THEN calculate_recent_trend(self_df_fitted[1], feature)
                          ELSE StableTrend
        IN  [feature |-> feature,
             coefficient |-> coef,
             wrds |-> IF include_wrds THEN calculate_wrds(self_df_fitted, feature, coef, None)
                      ELSE Rat(Abs(coef), 1),
             revenue_exposure |-> IF self_df_fitted # None
                                  THEN calculate_revenue_exposure(self_df_fitted[1], feature)
                                  ELSE Zero,
             trend_delta |-> trend_info.trend_delta,
             trend_direction |-> trend_info.direction]]

\* the column get_drivers sorts by: 'wrds' if include_wrds else 'coefficient'
SortColumn(include_wrds, r) == IF include_wrds THEN r.wrds ELSE Rat(r.coefficient, 1)

\* variant: the sign filter lets a coefficient of 0 through
PositiveHeadNonNegative(driver_df, top_n) ==
    DfHead(SelectSeq(driver_df, LAMBDA r : r.coefficient >= 0), top_n)

\* variant: tail in place of head
PositiveHeadAsTail(driver_df, top_n) ==
    DfTail(SelectSeq(driver_df, LAMBDA r : r.coefficient > 0), top_n)

\* driver_df[driver_df['coefficient'] > 0].head(top_n)
PositiveHead(driver_df, top_n) ==
    DfHead(SelectSeq(driver_df, LAMBDA r : r.coefficient > 0), top_n)

\* driver_df[driver_df['coefficient'] < 0].tail(top_n)
NegativeTail(driver_df, top_n) ==
    DfTail(SelectSeq(driver_df, LAMBDA r : r.coefficient < 0), top_n)

\* get_drivers(top_n, include_wrds) on an analyzer with these attributes: the
\* results it may return, one for each order the two sorts may leave ties in
get_drivers(self_df_fitted, self_coefficients, top_n, include_wrds) ==
    IF self_coefficients = None
    THEN {[positive_drivers |-> <<>>, negative_drivers |-> <<>>]}
    ELSE LET scores == DriverScores(self_df_fitted, self_coefficients[1], include_wrds)
         IN  UNION {{[positive_drivers |-> PositiveHead(driver_df, top_n),
                      negative_drivers |-> negative] :
                        negative \in SortedDescending(Range(NegativeTail(driver_df, top_n)),
                                                      LAMBDA r : SortColumn(include_wrds, r))} :
                    driver_df \in SortedDescending(Range(scores),
                                                   LAMBDA r : SortColumn(include_wrds, r))}

\* the position of a feature in an order of the features
PositionIn(order, feature) == CHOOSE i \in 1..Len(order) : order[i] = feature

\* rows of equal sort key are in the order `order` ranks their features in
RespectsTies(driver_df, include_wrds, order) ==
    \A i, j \in 1..Len(driver_df) :
        (i < j /\ SortColumn(include_wrds, driver_df[i]) = SortColumn(include_wrds, driver_df[j]))
            => PositionIn(order, driver_df[i].feature) < PositionIn(order, driver_df[j].feature)

\* get_drivers(top_n, include_wrds) on a build whose two sort_values calls
\* (lines 460 and 464) leave equal keys in the orders ties.first, ties.second
get_drivers_sorted(self_df_fitted, self_coefficients, top_n, include_wrds, ties) ==
    IF self_coefficients = None
    THEN [positive_drivers |-> <<>>, negative_drivers |-> <<>>]
    ELSE LET scores == DriverScores(self_df_fitted, self_coefficients[1], include_wrds)
             driver_df == CHOOSE d \in SortedDescending(Range(scores),
                                                        LAMBDA r : SortColumn(include_wrds, r)) :
                              RespectsTies(d, include_wrds, ties.first)
             negative == CHOOSE n \in SortedDescending(Range(NegativeTail(driver_df, top_n)),
                                                       LAMBDA r : SortColumn(include_wrds, r)) :
                             RespectsTies(n, include_wrds, ties.second)
         IN  [positive_drivers |-> PositiveHead(driver_df, top_n),
              negative_drivers |-> negative]

\* get_drivers(): top_n = 10
DefaultTopN == 10

\* compare_periods: abs(baseline_coef - recent_coef) > 0.1, in 0.01
ChangeThreshold == 10

\* {d['feature']: d['coefficient'] for d in drivers['negative_drivers']}
NegativeFeatures(drivers) ==
    [f \in {drivers.negative_drivers[i].feature : i \in 1..Len(drivers.negative_drivers)} |->
        (CHOOSE d \in Range(drivers.negative_drivers) : d.feature = f).coefficient]

\* features.get(feature, 0)
GetOrZero(features, feature) == IF feature \in DOMAIN features THEN features[feature] ELSE 0

\* variant: a difference of exactly 0.1 is flagged too
SignificantChangeInclusive(baseline_coef, recent_coef) ==
    Abs(baseline_coef - recent_coef) >= ChangeThreshold

\* abs(baseline_coef - recent_coef) > 0.1
SignificantChange(baseline_coef, recent_coef) ==
    Abs(baseline_coef - recent_coef) > ChangeThreshold

\* compare_periods, lines 548-566: changed_drivers, `order` being the order in
\* which the set of feature names is iterated
ChangedDrivers(baseline_drivers, recent_drivers, order) ==
    LET baseline_features == NegativeFeatures(baseline_drivers)
        recent_features == NegativeFeatures(recent_drivers)
        entries == [i \in 1..Len(order) |->
                      LET baseline_coef == GetOrZero(baseline_features, order[i])
                          recent_coef == GetOrZero(recent_features, order[i])
                      IN  [feature |-> order[i],
                           baseline_coef |-> baseline_coef,
                           recent_coef |-> recent_coef,
                           change |-> recent_coef - baseline_coef,
                           direction |-> IF recent_coef < baseline_coef THEN "worsened"
                                         ELSE "improved"]]
    IN  SelectSeq(entries, LAMBDA e : SignificantChange(e.baseline_coef, e.recent_coef))

\* the orders in which a Python set with the elements of S may be iterated
IterationOrders(S) ==
    {p \in [1..Cardinality(S) -> S] : \A i, j \in 1..Cardinality(S) : i # j => p[i] # p[j]}

\* ---------------------------------------------- decision_engine.py: actions
\* A str is the sequence of its characters.
LowerCase == <<"a", "b", "c", "d", "e", "f", "g", "h", "i", "j", "k", "l", "m", "n", "o", "p", "q", "r", "s", "t", "u", "v", "w", "x", "y", "z">>

UpperCase == <<"A", "B", "C", "D", "E", "F", "G", "H", "I", "J", "K", "L", "M", "N", "O", "P", "Q", "R", "S", "T", "U", "V", "W", "X", "Y", "Z">>

\* c.lower()
LowerChar(c) ==
    IF \E i \in 1..Len(UpperCase) : UpperCase[i] = c
    THEN LowerCase[CHOOSE i \in 1..Len(UpperCase) : UpperCase[i] = c]
    ELSE c

\* c.upper()
UpperChar(c) ==
    IF \E i \in 1..Len(LowerCase) : LowerCase[i] = c
    THEN UpperCase[CHOOSE i \in 1..Len(LowerCase) : LowerCase[i] = c]
    ELSE c

\* str.lower()
StrLower(str) == [i \in 1..Len(str) |-> LowerChar(str[i])]

\* needle in hay
StrIn(needle, hay) ==
    \E i \in 0..(Len(hay) - Len(needle)) : SubSeq(hay, i + 1, i + Len(needle)) = needle

\* get_action_mapping: action_map, in the order of the dict (the arrow of
\* 'MQL->SQL' is written in ASCII)
ActionMap ==
    <<
     [feature_type |-> <<"a", "c", "v", "_", "b", "u", "c", "k", "e", "t">>,
      likely_issues |-> <<"Pricing objections",
                         "Competitive pressure",
                         "Longer procurement cycles",
                         "Budget constraints">>,
      suggested_actions |-> <<"Exec sponsorship on top 20 deals",
                             "Pricing review and competitive analysis",
                             "Deal desk involvement earlier",
                             "ROI calculator and case studies">>],
     [feature_type |-> <<"i", "n", "d", "u", "s", "t", "r", "y">>,
      likely_issues |-> <<"Industry-specific requirements",
                         "Compliance concerns",
                         "Budget cycles",
                         "Competitive landscape">>,
      suggested_actions |-> <<"Industry-specific enablement",
                             "Compliance documentation",
                             "Timing alignment with budget cycles",
                             "Competitive battle cards">>],
     [feature_type |-> <<"r", "e", "g", "i", "o", "n">>,
      likely_issues |-> <<"Local competition",
                         "Market maturity",
                         "Language/cultural barriers",
                         "Time zone challenges">>,
      suggested_actions |-> <<"Local market analysis",
                             "Regional sales support",
                             "Localized content and demos",
                             "Time zone-aligned coverage">>],
     [feature_type |-> <<"l", "e", "a", "d", "_", "s", "o", "u", "r", "c", "e">>,
      likely_issues |-> <<"Lead quality",
                         "Intent mismatch",
                         "Timing issues",
                         "Qualification gaps">>,
      suggested_actions |-> <<"Rebalance marketing spend",
                             "Tighten MQL->SQL qualification",
                             "Improve lead scoring",
                             "Better handoff process">>],
     [feature_type |-> <<"p", "r", "o", "d", "u", "c", "t", "_", "t", "y", "p", "e">>,
      likely_issues |-> <<"Product-market fit",
                         "Feature gaps",
                         "Integration complexity",
                         "Support requirements">>,
      suggested_actions |-> <<"Product roadmap alignment",
                             "Integration support",
                             "Technical enablement",
                             "Customer success involvement">>],
     [feature_type |-> <<"c", "y", "c", "l", "e", "_", "b", "u", "c", "k", "e", "t">>,
      likely_issues |-> <<"Qualification issues",
                         "Chasing bad deals too long",
                         "Pricing friction",
                         "Process inefficiencies">>,
      suggested_actions |-> <<"Improve early-stage disqualification",
                             "Tighten MEDDICC / ICP enforcement",
                             "Pricing transparency",
                             "Streamline approval processes">>]
    >>

\* get_action_mapping: the default actions
DefaultActions ==
    [likely_issues |-> <<"Process inefficiencies", "Resource constraints", "Competitive pressure">>,
     suggested_actions |-> <<"Review sales process", "Enablement and training", "Competitive analysis">>]

Actions(entry) ==
    [likely_issues |-> entry.likely_issues, suggested_actions |-> entry.suggested_actions]

\* variant: the feature name is matched as written, without lower()
get_action_mapping_case_sensitive(feature_name, coefficient) ==
    LET is_negative == coefficient < 0
        matches(i) == \/ StrIn(ActionMap[i].feature_type, feature_name)
                      \/ StrIn(feature_name, ActionMap[i].feature_type)
    IN  IF \E i \in 1..Len(ActionMap) : matches(i)
        THEN Actions(ActionMap[CHOOSE i \in 1..Len(ActionMap) :
                                   matches(i) /\ \A j \in 1..(i - 1) : ~matches(j)])
        ELSE DefaultActions

\* get_action_mapping(feature_name, coefficient): the first entry of the table
\* whose key is in the lower-cased name or has the lower-cased name in it
get_action_mapping(feature_name, coefficient) ==
    LET is_negative == coefficient < 0
        matches(i) == \/ StrIn(ActionMap[i].feature_type, StrLower(feature_name))
                      \/ StrIn(StrLower(feature_name), ActionMap[i].feature_type)
    IN  IF \E i \in 1..Len(ActionMap) : matches(i)
        THEN Actions(ActionMap[CHOOSE i \in 1..Len(ActionMap) :
                                   matches(i) /\ \A j \in 1..(i - 1) : ~matches(j)])
        ELSE DefaultActions

\* ------------------------------------------------------------ data_loader.py
\* validate_data: critical_cols
CriticalCols ==
    <<"deal_id", "created_date", "closed_date", "deal_amount", "outcome", "sales_cycle_days">>

\* validate_data: valid_outcomes
ValidOutcomes == {"Won", "Lost"}

\* the longest sales cycle validate_data accepts, in days
LongestCycle == 365

\* A cell of a raw dataset is None (null, NaN, NaT) or Some(value); a comparison
\* with a null cell is False.
CellLt(x, y) == x # None /\ y # None /\ x[1] < y[1]

\* len(df[cond]): the number of rows a boolean mask selects
CountWhere(data, cond(_)) == Cardinality({i \in 1..Len(data.rows) : cond(data.rows[i])})

IssueIf(cond, issue) == IF cond THEN <<issue>> ELSE <<>>

\* validate_data, lines 47-49: one issue for each critical column that is there
\* and has a null
MissingValueIssues(data) ==
    LET upto[i \in 0..Len(CriticalCols)] ==
            IF i = 0 THEN <<>>
            ELSE LET col == CriticalCols[i]
                     nulls == CountWhere(data, LAMBDA r : r[col] = None)
                 IN  upto[i - 1] \o
                     IssueIf(col \in data.cols /\ nulls > 0,
                             [check |-> "missing values", col |-> col, count |-> nulls])
    IN  upto[Len(CriticalCols)]

\* validate_data(df): (is_valid, issues); an issue string is modelled by what
\* it reports
validate_data(data) ==
    LET invalid == {i \in 1..Len(data.rows) :
                        \A o \in ValidOutcomes : data.rows[i].outcome # Some(o)}
        negative == CountWhere(data, LAMBDA r : CellLt(r.deal_amount, Some(0)))
        invalid_dates == CountWhere(data, LAMBDA r : CellLt(r.closed_date, r.created_date))
        negative_cycles == CountWhere(data, LAMBDA r : CellLt(r.sales_cycle_days, Some(0)))
        very_long_cycles == CountWhere(data, LAMBDA r : CellLt(Some(LongestCycle), r.sales_cycle_days))
        issues ==
            MissingValueIssues(data)
            \o IssueIf("outcome" \in data.cols /\ invalid # {},
                        [check |-> "invalid outcome values",
                         values |-> {data.rows[i].outcome : i \in invalid}])
            \o IssueIf("deal_amount" \in data.cols /\ negative > 0,
                        [check |-> "negative deal amounts", count |-> negative])
            \o IssueIf({"created_date", "closed_date"} \subseteq data.cols /\ invalid_dates > 0,
                        [check |-> "closed_date before created_date", count |-> invalid_dates])
            \o IssueIf("sales_cycle_days" \in data.cols /\ negative_cycles > 0,
                        [check |-> "negative sales cycle days", count |-> negative_cycles])
            \o IssueIf("sales_cycle_days" \in data.cols /\ very_long_cycles > 0,
                        [check |-> "sales cycles > 365 days", count |-> very_long_cycles])
    IN  [is_valid |-> Len(issues) = 0, issues |-> issues]

\* add_derived_features: the finite bin edges of acv_bucket and its labels;
\* the last bin has no upper edge (float('inf'))
AcvBins == <<0, 10000, 30000, 50000>>

AcvLabels ==
    <<"SMB (<$10k)", "Mid-Market ($10k-$30k)", "Enterprise ($30k-$50k)", "Large Enterprise (>$50k)">>

\* add_derived_features: the finite bin edges of cycle_bucket and its labels
CycleBins == <<0, 30, 60, 90>>

CycleLabels == <<"Fast (<30d)", "Medium (30-60d)", "Slow (60-90d)", "Very Slow (>90d)">>

\* pd.cut(x, bins=bins + [inf], labels=labels): the bins are open on the left
\* and closed on the right, and a value in no bin has no label (NaN)
Cut(x, bins, labels) ==
    IF x <= bins[1] THEN None
    ELSE Some(labels[CHOOSE k \in 1..Len(bins) :
                        /\ bins[k] < x
                        /\ k < Len(bins) => x <= bins[k + 1]])

\* created_date.dt.to_period('Q')
ToQuarter(date) == [year |-> date.year, quarter |-> ((date.month - 1) \div 3) + 1]

\* add_derived_features(df): a copy of df with the derived columns
add_derived_features(data) ==
    [cols |-> data.cols \cup {"acv_bucket", "cycle_bucket", "created_quarter", "created_year", "is_won"},
     rows |-> [i \in 1..Len(data.rows) |->
                 LET r == data.rows[i]
                 IN  [deal_amount |-> r.deal_amount,
                      sales_cycle_days |-> r.sales_cycle_days,
                      created_date |-> r.created_date,
                      outcome |-> r.outcome,
                      acv_bucket |-> Cut(r.deal_amount, AcvBins, AcvLabels),
                      cycle_bucket |-> Cut(r.sales_cycle_days, CycleBins, CycleLabels),
                      created_quarter |-> ToQuarter(r.created_date),
                      created_year |-> r.created_date.year,
                      is_won |-> IF r.outcome = "Won" THEN 1 ELSE 0]]]

\* ------------------------------------------------------------- insights.py
\* the insufficient-data result of generate_segment_insight
InsufficientData ==
    [type |-> "segment_decline", message |-> "Insufficient data for trend analysis"]

\* groupby([time_period_col, segment_col]).apply(win rate).unstack(fill_value=0):
\* one row per period, one column per segment, 0 where a segment has no deal
\* in a period
SegmentWinRate(data, segment_col, time_period_col) ==
    [p \in Unique(data, time_period_col) |->
        [s \in Unique(data, segment_col) |->
            LET g == SelectSeq(data.rows, LAMBDA r : r[time_period_col] = p /\ r[segment_col] = s)
            IN  IF g = <<>> THEN Zero ELSE Rat(WonCount(g), Len(g))]]

RECURSIVE SumColumn(_, _, _)
SumColumn(table, periods, s) ==
    IF periods = <<>> THEN Zero
    ELSE RAdd(table[periods[1]][s], SumColumn(table, SubSeq(periods, 2, Len(periods)), s))

\* DataFrame.mean() of the rows `periods`, for column s
ColumnMean(table, periods, s) == RDivInt(SumColumn(table, periods, s), Len(periods))

\* generate_segment_insight(df, segment_col, time_period_col) on a frame with
\* at least one row; recent_periods and earlier_periods are the indexes of its
\* locals of these names. The segment_rwwr dictionary (lines 30-37) is filled
\* and never read.
generate_segment_insight(data, segment_col, time_period_col) ==
    LET segment_win_rate == SegmentWinRate(data, segment_col, time_period_col)
        index == SortedInts(DOMAIN segment_win_rate)
        columns == SelectSeq(LabelOrder, LAMBDA l : l \in Unique(data, segment_col))
    IN  IF Len(columns) > 1 /\ Len(index) > 1
        THEN LET recent_periods == DfTail(index, 2)
                 earlier_periods == DfHead(index, Max2(1, Len(index) - 2))
                 decline == [s \in Range(columns) |->
                                RSub(ColumnMean(segment_win_rate, earlier_periods, s),
                                     ColumnMean(segment_win_rate, recent_periods, s))]
                 worst == CHOOSE k \in 1..Len(columns) :
                              /\ \A j \in 1..Len(columns) : RLe(decline[columns[j]], decline[columns[k]])
                              /\ \A j \in 1..(k - 1) : RLt(decline[columns[j]], decline[columns[k]])
             IN  IF Len(earlier_periods) > 0
                 THEN [type |-> "segment_decline",
                       segment_column |-> segment_col,
                       worst_segment |-> columns[worst],
                       win_rate_decline |-> decline[columns[worst]],
                       recent_periods |-> recent_periods,
                       earlier_periods |-> earlier_periods]
                 ELSE InsufficientData
        ELSE InsufficientData

\* ------------------------------------------------------------- the state
VARIABLES
    df,              \* the dataset in hand (load_sales_data + add_derived_features)
    df_fitted,       \* WinRateDriverAnalyzer.df_fitted
    feature_names,   \* WinRateDriverAnalyzer.feature_names
    coefficients,    \* WinRateDriverAnalyzer.coefficients
    label_encoders,  \* WinRateDriverAnalyzer.label_encoders
    training,        \* WinRateDriverAnalyzer.training_samples, .test_samples
    sort_ties,       \* the order this build's sort_values leaves rows of equal key in
    op,              \* the last call: its name and arguments
    ret              \* what the last call returned

vars == <<df, df_fitted, feature_names, coefficients, label_encoders, training, sort_ties, op, ret>>

analyzer == <<df_fitted, feature_names, coefficients, label_encoders, training>>

Quarters == 1..MaxQuarter

Regions == {"A", "B"}

Outcomes == {"Won", "Lost"}

FullCols == {"created_quarter", "region", "outcome", "is_won", "deal_amount", "sales_cycle_days"}

Row(q, r, o, a) ==
    [created_quarter |-> q, region |-> r, outcome |-> o, deal_amount |-> a, sales_cycle_days |-> 30]

Idle == [name |-> "idle"]

\* WinRateDriverAnalyzer.__init__
InitAnalyzer ==
    /\ df_fitted = None
    /\ feature_names = <<>>
    /\ coefficients = None
    /\ label_encoders = [f \in {} |-> <<>>]
    /\ training = None

\* A specification that takes every order a sort may leave equal keys in does
\* not fix one.
AnyTies == sort_ties = None

\* Rows are read in a fixed order of (quarter, region, outcome, amount): none of the
\* modelled computations depends on the order of the rows.
RowRank(r) ==
    ((r.created_quarter * 2 + (IF r.region = "A" THEN 0 ELSE 1)) * 2
        + (IF r.outcome = "Won" THEN 0 ELSE 1)) * (MaxAmount + 1) + r.deal_amount

CanAppend(r) == IF df.rows = <<>> THEN TRUE ELSE RowRank(df.rows[Len(df.rows)]) <= RowRank(r)

\* No call is in progress: the caller holds no result it has yet to take.
Ready == op.name = "idle"

\* The caller takes the result of the last call.
Return ==
    /\ ~Ready
    /\ op' = Idle
    /\ ret' = <<>>
    /\ UNCHANGED <<df, analyzer, sort_ties>>

\* One more row of the input file is read.
AppendRow(r) ==
    /\ Ready
    /\ CanAppend(r)
    /\ df' = [df EXCEPT !.rows = Append(@, r)]
    /\ op' = Idle
    /\ ret' = <<>>
    /\ UNCHANGED <<analyzer, sort_ties>>

\* ------------------------------------------------ the windows of WR-delta
WindowRows == {Row(q, r, o, 1) : q \in Quarters, r \in Regions, o \in Outcomes}

InitWindow ==
    /\ df = [cols |-> FullCols, rows |-> <<>>]
    /\ op = Idle
    /\ ret = <<>>
    /\ InitAnalyzer
    /\ AnyTies

LoadWindowRow ==
    \E r \in WindowRows :
        /\ Len(df.rows) < MaxWindowRows
        /\ AppendRow(r)

\* win_rate_delta_by_segment(df, 'region', 'created_quarter', rq, pq); the window
\* sizes are ints the function does not check, 0 included
WinRateDelta ==
    \E rq \in 0..MaxWindow, pq \in 0..MaxWindow :
        /\ Ready
        /\ op' = [name |-> "win_rate_delta_by_segment", segment_col |-> "region",
                  recent_quarters |-> rq, previous_quarters |-> pq]
        /\ ret' = [value |-> win_rate_delta_by_segment(df, "region", "created_quarter", rq, pq),
                   windows |-> WindowsOf(df, "created_quarter", rq, pq)]
        /\ UNCHANGED <<df, analyzer, sort_ties>>

NextWindow == LoadWindowRow \/ WinRateDelta \/ Return

SpecWindow == InitWindow /\ [][NextWindow]_vars

\* ------------------------------------------------------------ the analyzer
\* model.coef_[0]: what the classifier learns is not modelled; any of these, in 0.01
CoefVals == {-20, -10, 0, 10}

InitSpec ==
    /\ df = [cols |-> FullCols, rows |-> <<>>]
    /\ op = Idle
    /\ ret = <<>>
    /\ InitAnalyzer
    /\ AnyTies

\* The dataset of a run has one deal per quarter, over as many quarters as the
\* trend compares; it is read before the analyzer is used (main.py
\* run_decision_engine).
HistoryRows ==
    {Row(q, r, o, 1) : q \in 1..(RecentQuarters + PreviousQuarters), r \in Regions, o \in Outcomes}

LoadRow ==
    \E r \in HistoryRows :
        /\ df_fitted = None
        /\ Len(df.rows) < RecentQuarters + PreviousQuarters
        /\ r.created_quarter = Len(df.rows) + 1
        /\ AppendRow(r)

\* analyzer.fit(df), the classifier's coefficients being among `vals`
FitCall(vals) ==
    /\ Ready
    /\ op' = [name |-> "fit"]
    /\ df_fitted' = Some(df)
    /\ label_encoders' = prepare_features(label_encoders, df).label_encoders
    /\ IF prepare_features(label_encoders, df).raised
       THEN /\ ret' = [raised |-> TRUE]
            /\ UNCHANGED <<feature_names, coefficients, training>>
       ELSE /\ feature_names' = prepare_features(label_encoders, df).feature_cols
            /\ IF FitRaises(df)
               THEN /\ ret' = [raised |-> TRUE]
                    /\ UNCHANGED <<coefficients, training>>
               ELSE /\ ret' = [raised |-> FALSE]
                    /\ training' = Some(TrainTestSplit(Len(df.rows)))
                    /\ \E coef \in [1..Len(FeatureCols(df)) -> vals] :
                          coefficients' = Some([i \in 1..Len(FeatureCols(df)) |->
                              [feature |-> FeatureCols(df)[i], coefficient |-> coef[i]]])
    /\ UNCHANGED <<df, sort_ties>>

\* analyzer.fit(df); an analyzer is fitted once (main.py:221-222, 357-358)
Fit ==
    /\ coefficients = None
    /\ FitCall(CoefVals)

\* analyzer.calculate_wrds(feature, coef), as get_drivers calls it for a row of
\* the coefficients table
CalculateWrds ==
    /\ Ready
    /\ coefficients # None
    /\ \E i \in 1..Len(coefficients[1]) :
          /\ op' = [name |-> "calculate_wrds", feature_name |-> coefficients[1][i].feature,
                    coefficient |-> coefficients[1][i].coefficient]
          /\ ret' = calculate_wrds(df_fitted, coefficients[1][i].feature,
                                   coefficients[1][i].coefficient, None)
    /\ UNCHANGED <<df, analyzer, sort_ties>>

\* analyzer.get_drivers(top_n, include_wrds)
GetDrivers ==
    \E top_n \in 0..MaxTopN, include_wrds \in BOOLEAN :
        /\ Ready
        /\ op' = [name |-> "get_drivers", top_n |-> top_n, include_wrds |-> include_wrds]
        /\ IF coefficients = None
           THEN ret' = [positive_drivers |-> <<>>, negative_drivers |-> <<>>]
           ELSE LET scores == DriverScores(df_fitted, coefficients[1], include_wrds)
                IN  \E driver_df \in SortedDescending(Range(scores),
                                                      LAMBDA r : SortColumn(include_wrds, r)) :
                    \E negative \in SortedDescending(Range(NegativeTail(driver_df, top_n)),
                                                     LAMBDA r : SortColumn(include_wrds, r)) :
                        ret' = [positive_drivers |-> PositiveHead(driver_df, top_n),
                                negative_drivers |-> negative]
        /\ UNCHANGED <<df, analyzer, sort_ties>>

Next == LoadRow \/ Fit \/ CalculateWrds \/ GetDrivers \/ Return

Spec == InitSpec /\ [][Next]_vars

\* ------------------------------------------------------- the recent trend
\* Rows of one region; the quarter is a placeholder when the dataset has no
\* created_quarter column.
TrendRows(cols) ==
    {Row(q, "A", o, 1) : q \in (IF "created_quarter" \in cols THEN Quarters ELSE {0}),
                         o \in Outcomes}

InitTrend ==
    /\ df \in {[cols |-> c, rows |-> <<>>] : c \in {FullCols, FullCols \ {"created_quarter"}}}
    /\ op = Idle
    /\ ret = <<>>
    /\ InitAnalyzer
    /\ AnyTies

LoadTrendRow ==
    \E r \in TrendRows(df.cols) :
        /\ Len(df.rows) < MaxTrendRows
        /\ AppendRow(r)

\* analyzer.calculate_recent_trend(df, feature_name)
CalculateRecentTrend ==
    \E feature_name \in {"region", "industry", "deal_amount"} :
        /\ Ready
        /\ op' = [name |-> "calculate_recent_trend", feature_name |-> feature_name]
        /\ ret' = calculate_recent_trend(df, feature_name)
        /\ UNCHANGED <<df, analyzer, sort_ties>>

NextTrend == LoadTrendRow \/ CalculateRecentTrend \/ Return

SpecTrend == InitTrend /\ [][NextTrend]_vars

\* ------------------------------------ revenue exposure, loss concentration
ExposureRows == {Row(1, r, o, a) : r \in Regions, o \in Outcomes, a \in 0..MaxAmount}

InitExposure ==
    /\ df = [cols |-> FullCols, rows |-> <<>>]
    /\ op = Idle
    /\ ret = <<>>
    /\ InitAnalyzer
    /\ AnyTies

LoadExposureRow ==
    \E r \in ExposureRows :
        /\ Len(df.rows) < MaxExposureRows
        /\ AppendRow(r)

\* analyzer.calculate_revenue_exposure(df, feature_name)
CalculateRevenueExposure ==
    \E feature_name \in {"region", "industry", "deal_amount", "sales_cycle_days"} :
        /\ Ready
        /\ op' = [name |-> "calculate_revenue_exposure", feature_name |-> feature_name]
        /\ ret' = calculate_revenue_exposure(df, feature_name)
        /\ UNCHANGED <<df, analyzer, sort_ties>>

\* loss_concentration_ratio(df, 'region', top_n)
LossConcentrationRatio ==
    \E top_n \in 0..MaxTopN :
        /\ Ready
        /\ LET counts == SegmentLossCounts(df, "region")
           IN  \E ranked \in SortedDescending(DOMAIN counts, LAMBDA s : Rat(counts[s], 1)) :
                   /\ op' = [name |-> "loss_concentration_ratio", segment_col |-> "region",
                             top_n |-> top_n]
                   /\ ret' = loss_concentration_ratio(df, "region", top_n, ranked)
                   /\ UNCHANGED <<df, analyzer, sort_ties>>

NextExposure == LoadExposureRow \/ CalculateRevenueExposure \/ LossConcentrationRatio \/ Return

SpecExposure == InitExposure /\ [][NextExposure]_vars

\* ------------------------------------- loss concentration, three segments
LossRegions == {"A", "B", "C"}

LossRows == {Row(1, r, o, 1) : r \in LossRegions, o \in Outcomes}

\* the order in which the rows of this dataset are read
LossRank(r) ==
    (CASE r.region = "A" -> 0 [] r.region = "B" -> 1 [] OTHER -> 2) * 2
        + (IF r.outcome = "Won" THEN 0 ELSE 1)

InitLoss ==
    /\ df = [cols |-> FullCols, rows |-> <<>>]
    /\ op = Idle
    /\ ret = <<>>
    /\ InitAnalyzer
    /\ AnyTies

LoadLossRow ==
    \E r \in LossRows :
        /\ Len(df.rows) < MaxLossRows
        /\ IF df.rows = <<>> THEN TRUE ELSE LossRank(df.rows[Len(df.rows)]) <= LossRank(r)
        /\ AppendRow(r)

\* loss_concentration_ratio(df, 'region', top_n), called on a fresh dataset or
\* again on the same dataset right after an earlier call
LossConcentrationRepeated ==
    \E top_n \in 0..MaxLossTopN :
        /\ op.name \in {"idle", "loss_concentration_ratio"}
        /\ LET counts == SegmentLossCounts(df, "region")
           IN  \E ranked \in SortedDescending(DOMAIN counts, LAMBDA s : Rat(counts[s], 1)) :
                   /\ op' = [name |-> "loss_concentration_ratio", segment_col |-> "region",
                             top_n |-> top_n]
                   /\ ret' = loss_concentration_ratio(df, "region", top_n, ranked)
                   /\ UNCHANGED <<df, analyzer, sort_ties>>

NextLoss == LoadLossRow \/ LossConcentrationRepeated \/ Return

SpecLoss == InitLoss /\ [][NextLoss]_vars

\* ------------------------------------------------------ deal friction index
FrictionRows ==
    {[Row(1, r, o, 1) EXCEPT !.sales_cycle_days = d] :
        r \in Regions, o \in Outcomes, d \in 0..MaxDays}

\* the order in which the rows of this dataset are read
FrictionRank(r) == RowRank(r) * (MaxDays + 1) + r.sales_cycle_days

InitFriction ==
    /\ df = [cols |-> FullCols, rows |-> <<>>]
    /\ op = Idle
    /\ ret = <<>>
    /\ InitAnalyzer
    /\ AnyTies

LoadFrictionRow ==
    \E r \in FrictionRows :
        /\ Len(df.rows) < MaxFrictionRows
        /\ IF df.rows = <<>> THEN TRUE
           ELSE FrictionRank(df.rows[Len(df.rows)]) <= FrictionRank(r)
        /\ AppendRow(r)

\* deal_friction_index(df) and deal_friction_index(df, ['region'])
DealFrictionIndex ==
    \E groupby_cols \in {None, Some("region")} :
        /\ Ready
        /\ op' = [name |-> "deal_friction_index", groupby_cols |-> groupby_cols]
        /\ ret' = deal_friction_index(df, groupby_cols)
        /\ UNCHANGED <<df, analyzer, sort_ties>>

NextFriction == LoadFrictionRow \/ DealFrictionIndex \/ Return

SpecFriction == InitFriction /\ [][NextFriction]_vars

\* ------------------------------------------ win rate, revenue-weighted rate
\* revenue_weighted_win_rate(df) and revenue_weighted_win_rate(df, ['region'])
RevenueWeightedWinRate ==
    \E groupby_cols \in {None, Some("region")} :
        /\ Ready
        /\ op' = [name |-> "revenue_weighted_win_rate", groupby_cols |-> groupby_cols]
        /\ ret' = [raised |-> FALSE, value |-> revenue_weighted_win_rate(df, groupby_cols)]
        /\ UNCHANGED <<df, analyzer, sort_ties>>

\* win_rate(df) and win_rate(df, ['region'])
WinRate ==
    \E groupby_cols \in {None, Some("region")} :
        /\ Ready
        /\ op' = [name |-> "win_rate", groupby_cols |-> groupby_cols]
        /\ ret' = [raised |-> FALSE, value |-> win_rate(df, groupby_cols)]
        /\ UNCHANGED <<df, analyzer, sort_ties>>

NextRates == LoadExposureRow \/ RevenueWeightedWinRate \/ WinRate \/ Return

SpecRates == InitExposure /\ [][NextRates]_vars

\* ---------------------------------------- one analyzer, several datasets
\* The category labels of the datasets: one the encoder may or may not have
\* seen, and the literal 'unknown'.
EncLabels == {"A", "Z", "unknown"}

\* The datasets have the region column or lack it.
EncColumns == {FullCols, FullCols \ {"region"}}

EncRows(cols) ==
    {Row(1, r, o, 1) : r \in (IF "region" \in cols THEN EncLabels ELSE {"A"}), o \in Outcomes}

\* the order in which the rows of these datasets are read
EncRank(r) ==
    (CASE r.region = "A" -> 0 [] r.region = "Z" -> 1 [] OTHER -> 2) * 2
        + (IF r.outcome = "Won" THEN 0 ELSE 1)

InitEncoders ==
    /\ df \in {[cols |-> c, rows |-> <<>>] : c \in EncColumns}
    /\ op = Idle
    /\ ret = <<>>
    /\ InitAnalyzer
    /\ AnyTies

\* The caller turns to another dataset.
NewDataset ==
    \E c \in EncColumns :
        /\ Ready
        /\ df # [cols |-> c, rows |-> <<>>]
        /\ df' = [cols |-> c, rows |-> <<>>]
        /\ op' = Idle
        /\ ret' = <<>>
        /\ UNCHANGED <<analyzer, sort_ties>>

LoadEncRow ==
    \E r \in EncRows(df.cols) :
        /\ Len(df.rows) < MaxEncRows
        /\ IF df.rows = <<>> THEN TRUE ELSE EncRank(df.rows[Len(df.rows)]) <= EncRank(r)
        /\ AppendRow(r)

\* analyzer.prepare_features(df)
PrepareFeatures ==
    /\ Ready
    /\ op' = [name |-> "prepare_features"]
    /\ label_encoders' = prepare_features(label_encoders, df).label_encoders
    /\ feature_names' = IF prepare_features(label_encoders, df).raised THEN feature_names
                        ELSE prepare_features(label_encoders, df).feature_cols
    /\ ret' = [raised |-> prepare_features(label_encoders, df).raised,
               X |-> IF prepare_features(label_encoders, df).raised THEN <<>>
                     ELSE prepare_features(label_encoders, df).X]
    /\ UNCHANGED <<df, df_fitted, coefficients, training, sort_ties>>

\* model.coef_[0] of a fit on these datasets, in 0.01: one value, the encoders
\* and the feature list do not depend on what the classifier learns
RefitCoefVals == {-10}

\* analyzer.fit(df), on an analyzer fitted before or not
Refit == FitCall(RefitCoefVals)

\* analyzer.save_model(filepath): raises on an analyzer no fit has completed
\* on (training_date and the other training attributes are not set)
SaveModel ==
    /\ Ready
    /\ op' = [name |-> "save_model"]
    /\ ret' = IF training = None THEN [raised |-> TRUE]
              ELSE [raised |-> FALSE,
                    file |-> save_model(label_encoders, feature_names, coefficients, training)]
    /\ UNCHANGED <<df, analyzer, sort_ties>>

\* WinRateDriverAnalyzer.load_model(filepath) on the file just written
LoadModel ==
    /\ op.name = "save_model"
    /\ ~ret.raised
    /\ op' = [name |-> "load_model"]
    /\ ret' = [raised |-> FALSE, analyzer |-> load_model(ret.file)]
    /\ UNCHANGED <<df, analyzer, sort_ties>>

NextEncoders ==
    NewDataset \/ LoadEncRow \/ PrepareFeatures \/ Refit \/ SaveModel \/ LoadModel \/ Return

SpecEncoders == InitEncoders /\ [][NextEncoders]_vars

\* ------------------------------------------------------ period comparison
\* model.coef_[0] of the recent and of the baseline fit, in 0.01
CompareCoefVals == {-20, -10, 10}

CompareRows == {Row(q, r, o, 1) : q \in 1..MaxCompareRows, r \in Regions, o \in Outcomes}

\* the recent period: one deal per quarter
LoadCompareRow ==
    \E r \in CompareRows :
        /\ df_fitted = None
        /\ Len(df.rows) < MaxCompareRows
        /\ r.created_quarter = Len(df.rows) + 1
        /\ AppendRow(r)

\* analyzer.fit(recent_data) (main.py:221-222)
FitRecent ==
    /\ coefficients = None
    /\ FitCall(CompareCoefVals)

\* the baseline period: a Won and a Lost deal, or a single deal; with the
\* region column or without it
BaselineDatasets ==
    {[cols |-> c, rows |-> rows] :
        c \in {FullCols, FullCols \ {"region"}},
        rows \in {<<Row(1, "A", "Won", 1), Row(2, "A", "Lost", 1)>>, <<Row(1, "A", "Won", 1)>>}}

\* analyzer.compare_periods(df_baseline, df_recent): a new analyzer is fitted
\* on the baseline (and kept as self.baseline_analyzer), its negative drivers
\* are compared to those of this analyzer
ComparePeriods ==
    \E df_baseline \in BaselineDatasets :
        /\ Ready
        /\ op' = [name |-> "compare_periods", df_baseline |-> df_baseline]
        /\ IF prepare_features([f \in {} |-> <<>>], df_baseline).raised \/ FitRaises(df_baseline)
           THEN ret' = [raised |-> TRUE]
           ELSE \E coef \in [1..Len(FeatureCols(df_baseline)) -> CompareCoefVals] :
                  LET baseline_coefficients ==
                          [i \in 1..Len(FeatureCols(df_baseline)) |->
                              [feature |-> FeatureCols(df_baseline)[i], coefficient |-> coef[i]]]
                  IN  \E baseline_drivers \in get_drivers(Some(df_baseline),
                                                          Some(baseline_coefficients),
                                                          DefaultTopN, TRUE),
                         recent_drivers \in get_drivers(df_fitted, coefficients, DefaultTopN, TRUE) :
                        \E order \in IterationOrders(DOMAIN NegativeFeatures(baseline_drivers)
                                                     \cup DOMAIN NegativeFeatures(recent_drivers)) :
                            ret' = [raised |-> FALSE,
                                    baseline_analyzer |-> [coefficients |-> baseline_coefficients],
                                    baseline_drivers |-> baseline_drivers,
                                    recent_drivers |-> recent_drivers,
                                    changed_drivers |->
                                        ChangedDrivers(baseline_drivers, recent_drivers, order)]
        /\ UNCHANGED <<df, analyzer, sort_ties>>

NextCompare == LoadCompareRow \/ FitRecent \/ ComparePeriods \/ Return

SpecCompare == InitSpec /\ [][NextCompare]_vars

\* ------------------------------------------------------------- validation
\* A deal that meets the data contract.
ValidDeal ==
    [deal_id |-> Some(1), created_date |-> Some(1), closed_date |-> Some(2),
     deal_amount |-> Some(0), outcome |-> Some("Won"), sales_cycle_days |-> Some(0)]

\* The raw deals of a file: valid ones and ones with one cell off the contract.
RawDeals ==
    <<ValidDeal,
      [ValidDeal EXCEPT !.outcome = Some("Lost"), !.sales_cycle_days = Some(LongestCycle)],
      [ValidDeal EXCEPT !.deal_id = None],
      [ValidDeal EXCEPT !.created_date = None],
      [ValidDeal EXCEPT !.closed_date = None],
      [ValidDeal EXCEPT !.deal_amount = None],
      [ValidDeal EXCEPT !.outcome = None],
      [ValidDeal EXCEPT !.sales_cycle_days = None],
      [ValidDeal EXCEPT !.outcome = Some("Open")],
      [ValidDeal EXCEPT !.deal_amount = Some(-1)],
      [ValidDeal EXCEPT !.closed_date = Some(0)],
      [ValidDeal EXCEPT !.sales_cycle_days = Some(-1)],
      [ValidDeal EXCEPT !.sales_cycle_days = Some(LongestCycle + 1)]>>

\* The columns of a file: all critical columns, or all but one.
RawColumns == {Range(CriticalCols)} \cup {Range(CriticalCols) \ {c} : c \in Range(CriticalCols)}

InitValidate ==
    /\ df \in {[cols |-> c, rows |-> <<>>, last |-> 1] : c \in RawColumns}
    /\ op = Idle
    /\ ret = <<>>
    /\ InitAnalyzer
    /\ AnyTies

\* One more row of the file is read; none of the checks depends on the order
\* of the rows, so they are read in the order of RawDeals.
LoadRawDeal ==
    \E k \in 1..Len(RawDeals) :
        /\ Ready
        /\ Len(df.rows) < MaxValidateRows
        /\ df.last <= k
        /\ df' = [df EXCEPT !.rows = Append(@, RawDeals[k]), !.last = k]
        /\ UNCHANGED <<analyzer, sort_ties, op, ret>>

\* is_valid, issues = validate_data(df)
ValidateData ==
    /\ Ready
    /\ op' = [name |-> "validate_data"]
    /\ ret' = validate_data(df)
    /\ UNCHANGED <<df, analyzer, sort_ties>>

NextValidate == LoadRawDeal \/ ValidateData \/ Return

SpecValidate == InitValidate /\ [][NextValidate]_vars

\* --------------------------------------------------------- action mapping
\* str with the characters at the positions in `at` in upper case
UpperAt(str, at) == [i \in 1..Len(str) |-> IF i \in at THEN UpperChar(str[i]) ELSE str[i]]

\* Up to MaxUpper characters in upper case, or all but up to MaxUpper.
CaseMasks(n) ==
    LET few == {at \in SUBSET (1..n) : Cardinality(at) <= MaxUpper}
    IN  few \cup {(1..n) \ at : at \in few}

\* The feature names of the model (prepare_features) and others a caller may
\* pass: a part of a key, a name with a key in it, the empty string.
OtherNames ==
    {<<"d", "e", "a", "l", "_", "s", "t", "a", "g", "e">>,
     <<"d", "e", "a", "l", "_", "a", "m", "o", "u", "n", "t">>,
     <<"s", "a", "l", "e", "s", "_", "c", "y", "c", "l", "e", "_", "d", "a", "y", "s">>,
     <<"b", "u", "c", "k", "e", "t">>,
     <<"r", "e", "g", "i", "o", "n", "_", "n", "a", "m", "e">>,
     <<>>}

FeatureNames ==
    UNION {{UpperAt(ActionMap[k].feature_type, at) : at \in CaseMasks(Len(ActionMap[k].feature_type))} :
              k \in 1..Len(ActionMap)}
    \cup UNION {{UpperAt(str, at) : at \in {{}, 1..Len(str)}} : str \in OtherNames}

InitActions ==
    /\ df = [cols |-> FullCols, rows |-> <<>>]
    /\ op = Idle
    /\ ret = <<>>
    /\ InitAnalyzer
    /\ AnyTies

\* actions = analyzer.get_action_mapping(feature_name, coefficient); a caller
\* may ask again for the same feature with another coefficient
GetActionMapping ==
    \E feature_name \in FeatureNames, coefficient \in CoefVals :
        /\ \/ Ready
           \/ op.name = "get_action_mapping" /\ op.feature_name = feature_name
        /\ op' = [name |-> "get_action_mapping", feature_name |-> feature_name,
                  coefficient |-> coefficient]
        /\ ret' = get_action_mapping(feature_name, coefficient)
        /\ UNCHANGED <<df, analyzer, sort_ties>>

NextActions == GetActionMapping \/ Return

SpecActions == InitActions /\ [][NextActions]_vars

\* -------------------------------------------------------- derived features
\* the values at and next to the edges of the bins
AroundEdges(bins) ==
    {x \in UNION {{bins[k] - 1, bins[k], bins[k] + 1} : k \in 1..Len(bins)} : x >= 0}

LoadedColumns == {"deal_amount", "sales_cycle_days", "created_date", "outcome"}

CreatedDates == {[year |-> 2024, month |-> 3], [year |-> 2024, month |-> 4]}

\* The deals of a loaded file: any amount around a bin edge with a cycle of 30
\* days, or any cycle length around a bin edge with an amount of 10000.
LoadedDeals ==
    {[deal_amount |-> a, sales_cycle_days |-> 30, created_date |-> d, outcome |-> o] :
        a \in AroundEdges(AcvBins), d \in CreatedDates, o \in Outcomes}
    \cup {[deal_amount |-> 10000, sales_cycle_days |-> c, created_date |-> d, outcome |-> o] :
        c \in AroundEdges(CycleBins), d \in CreatedDates, o \in Outcomes}

\* None of the derived columns depends on the order of the rows: they are read
\* in a fixed order.
LoadedRank(r) ==
    (((r.deal_amount * 100 + r.sales_cycle_days) * 12 + r.created_date.month) * 2)
        + (IF r.outcome = "Won" THEN 0 ELSE 1)

InitDerived ==
    /\ df = [cols |-> LoadedColumns, rows |-> <<>>]
    /\ op = Idle
    /\ ret = <<>>
    /\ InitAnalyzer
    /\ AnyTies

LoadDeal ==
    \E r \in LoadedDeals :
        /\ Ready
        /\ Len(df.rows) < MaxDerivedRows
        /\ df.rows # <<>> => LoadedRank(df.rows[Len(df.rows)]) <= LoadedRank(r)
        /\ df' = [df EXCEPT !.rows = Append(@, r)]
        /\ UNCHANGED <<analyzer, sort_ties, op, ret>>

\* df = add_derived_features(df) (main.py): the caller's frame is the argument
AddDerivedFeatures ==
    /\ Ready
    /\ op' = [name |-> "add_derived_features"]
    /\ ret' = add_derived_features(df)
    /\ UNCHANGED <<df, analyzer, sort_ties>>

NextDerived == LoadDeal \/ AddDerivedFeatures \/ Return

SpecDerived == InitDerived /\ [][NextDerived]_vars

\* ------------------------------------------- ranking, call after call
\* model.coef_[0], in 0.01: equal and opposite values, for equal sort keys
RankCoefVals == {-10, 10}

\* the features a dataset of the model can have
ModelFeatures == {f \in Range(CategoricalFeatures \o NumericalFeatures) : f \in FullCols}

\* One build leaves equal keys in one order, whichever it is, at each of the
\* two sorts of get_drivers.
InitRanking ==
    /\ df = [cols |-> FullCols, rows |-> <<>>]
    /\ op = Idle
    /\ ret = <<>>
    /\ InitAnalyzer
    /\ sort_ties \in {Some([first |-> p, second |-> q]) :
                         p \in IterationOrders(ModelFeatures), q \in IterationOrders(ModelFeatures)}

FitRanked ==
    /\ coefficients = None
    /\ FitCall(RankCoefVals)

\* variant: the call leaves the coefficient table sorted by coefficient
GetDriversSortsInPlace ==
    \E top_n \in 0..MaxTopN, include_wrds \in BOOLEAN :
        /\ \/ Ready
           \/ op = [name |-> "get_drivers", top_n |-> top_n, include_wrds |-> include_wrds,
                    loaded |-> FALSE]
        /\ op' = [name |-> "get_drivers", top_n |-> top_n, include_wrds |-> include_wrds,
                  loaded |-> FALSE]
        /\ ret' = get_drivers_sorted(df_fitted, coefficients, top_n, include_wrds, sort_ties[1])
        /\ coefficients' =
              IF coefficients = None THEN None
              ELSE Some(CHOOSE t \in SortedDescending(Range(coefficients[1]),
                                                      LAMBDA r : SortColumn(FALSE, r)) :
                            RespectsTies(t, FALSE, sort_ties[1].first))
        /\ UNCHANGED <<df, df_fitted, feature_names, label_encoders, training, sort_ties>>

\* analyzer.get_drivers(top_n, include_wrds), once, or once more with the
\* same arguments
GetDriversRepeated ==
    \E top_n \in 0..MaxTopN, include_wrds \in BOOLEAN :
        /\ \/ Ready
           \/ op = [name |-> "get_drivers", top_n |-> top_n, include_wrds |-> include_wrds,
                    loaded |-> FALSE]
        /\ op' = [name |-> "get_drivers", top_n |-> top_n, include_wrds |-> include_wrds,
                  loaded |-> FALSE]
        /\ ret' = get_drivers_sorted(df_fitted, coefficients, top_n, include_wrds, sort_ties[1])
        /\ UNCHANGED <<df, analyzer, sort_ties>>

\* WinRateDriverAnalyzer.load_model(filepath).get_drivers(top_n, include_wrds):
\* the ranking of the analyzer load_model has just returned
GetDriversLoaded ==
    \E top_n \in 0..MaxTopN, include_wrds \in BOOLEAN :
        /\ op.name = "load_model"
        /\ op' = [name |-> "get_drivers", top_n |-> top_n, include_wrds |-> include_wrds,
                  loaded |-> TRUE]
        /\ ret' = get_drivers_sorted(ret.analyzer.df_fitted, ret.analyzer.coefficients,
                                     top_n, include_wrds, sort_ties[1])
        /\ UNCHANGED <<df, analyzer, sort_ties>>

NextRanking ==
    LoadCompareRow \/ FitRanked \/ GetDriversRepeated \/ SaveModel \/ LoadModel
        \/ GetDriversLoaded \/ Return

SpecRanking == InitRanking /\ [][NextRanking]_vars

\* --------------------------------------------------------- segment insight
\* insight = generate_segment_insight(df, segment_col='region',
\*                                    time_period_col='created_quarter')
GenerateSegmentInsight ==
    /\ Ready
    /\ df.rows # <<>>
    /\ op' = [name |-> "generate_segment_insight", segment_col |-> "region"]
    /\ ret' = generate_segment_insight(df, "region", "created_quarter")
    /\ UNCHANGED <<df, analyzer, sort_ties>>

NextInsight == LoadWindowRow \/ GenerateSegmentInsight \/ Return

SpecInsight == InitWindow /\ [][NextInsight]_vars

\* ------------------------------------------- the trend over two segments
\* calculate_recent_trend on the datasets of a run: one deal per quarter, of
\* either region
NextSegmentTrend == LoadRow \/ CalculateRecentTrend \/ Return

SpecSegmentTrend == InitSpec /\ [][NextSegmentTrend]_vars

\* ================================================================ claims
\* Vocabulary of the claims, stated on the dataset in hand.
RowIndexes == 1..Len(df.rows)

DistinctPeriods == {df.rows[i].created_quarter : i \in RowIndexes}

\* the k latest distinct periods
LastPeriods(k) == {q \in DistinctPeriods : Cardinality({p \in DistinctPeriods : p > q}) < k}

\* number of rows with value s in column col, created in one of the periods, with an outcome in outs
CountRows(col, s, periods, outs) ==
    Cardinality({i \in RowIndexes : /\ df.rows[i][col] = s
                                    /\ df.rows[i].created_quarter \in periods
                                    /\ df.rows[i].outcome \in outs})

RECURSIVE AmountUpTo(_, _)
AmountUpTo(i, regions) ==
    IF i = 0 THEN 0
    ELSE (IF df.rows[i].region \in regions THEN df.rows[i].deal_amount ELSE 0)
         + AmountUpTo(i - 1, regions)

AmountIn(regions) == AmountUpTo(Len(df.rows), regions)

\* Vocabulary of the claims about get_drivers, stated on the fitted analyzer.
FittedTable == coefficients[1]

\* the WRDS of row i of the coefficients table
ScoreOf(i) == calculate_wrds(df_fitted, FittedTable[i].feature, FittedTable[i].coefficient, None)

NegativeRows == {i \in 1..Len(FittedTable) : FittedTable[i].coefficient < 0}

PositiveRows == {i \in 1..Len(FittedTable) : FittedTable[i].coefficient > 0}

RankedCall == op.name = "get_drivers" /\ op.include_wrds /\ coefficients # None

DescendingByWrds(drivers) ==
    \A k \in 1..(Len(drivers) - 1) : RLe(drivers[k + 1].wrds, drivers[k].wrds)

\* drivers are n rows of the table among `rows`, each with its WRDS, and no row
\* of `rows` left out scores higher than one that is listed
TopByWrds(drivers, rows, n) ==
    /\ Len(drivers) = Min2(n, Cardinality(rows))
    /\ \A k \in 1..Len(drivers) :
          \E i \in rows : /\ drivers[k].feature = FittedTable[i].feature
                          /\ drivers[k].coefficient = FittedTable[i].coefficient
                          /\ drivers[k].wrds = ScoreOf(i)
    /\ \A j, k \in 1..Len(drivers) : j # k => drivers[j].feature # drivers[k].feature
    /\ \A i \in rows :
          (\A k \in 1..Len(drivers) : drivers[k].feature # FittedTable[i].feature)
          => \A k \in 1..Len(drivers) : RLe(ScoreOf(i), drivers[k].wrds)

\* C1: for top_n >= 1, get_drivers(top_n, include_wrds=True) returns as
\* negative_drivers the min(top_n, number of negative-coefficient features)
\* negative-coefficient features with the highest WRDS.
C1_NegativeTopN ==
    (RankedCall /\ op.top_n >= 1) => TopByWrds(ret.negative_drivers, NegativeRows, op.top_n)

\* C2: in the result of get_drivers(top_n, include_wrds=True), top_n >= 0, both
\* lists are in descending order of wrds, every positive driver has a
\* coefficient > 0 and every negative driver a coefficient < 0.
C2_SortedAndSigned ==
    RankedCall =>
        /\ DescendingByWrds(ret.positive_drivers)
        /\ DescendingByWrds(ret.negative_drivers)
        /\ \A k \in 1..Len(ret.positive_drivers) : ret.positive_drivers[k].coefficient > 0
        /\ \A k \in 1..Len(ret.negative_drivers) : ret.negative_drivers[k].coefficient < 0

\* two negative drivers of different WRDS next to a positive one, and a feature
\* of coefficient 0 in neither list
C2_Witness ==
    /\ RankedCall
    /\ Len(ret.negative_drivers) = 2
    /\ RLt(ret.negative_drivers[2].wrds, ret.negative_drivers[1].wrds)
    /\ \E i \in 1..Len(FittedTable) : FittedTable[i].coefficient = 0

\* C3: for top_n >= 1, get_drivers(top_n, include_wrds=True) returns as
\* positive_drivers the min(top_n, number of positive-coefficient features)
\* positive-coefficient features with the highest WRDS, highest first.
C3_PositiveTopN ==
    (RankedCall /\ op.top_n >= 1) =>
        /\ TopByWrds(ret.positive_drivers, PositiveRows, op.top_n)
        /\ DescendingByWrds(ret.positive_drivers)

\* more positive features than top_n, of different WRDS
C3_Witness ==
    /\ RankedCall
    /\ op.top_n = 1
    /\ Cardinality(PositiveRows) = 3
    /\ \E i, j \in PositiveRows : RLt(ScoreOf(i), ScoreOf(j))
    /\ Len(ret.positive_drivers) = 1

\* C4: on a fitted analyzer calculate_wrds returns |coefficient| x revenue
\* exposure x multiplier, the multiplier being 1.5 / 1.0 / 0.8 for a negative
\* coefficient with a worsening / stable / improving trend and 1.5 / 1.0 / 0.8
\* for a positive coefficient with an improving / stable / worsening trend.
C4_Multiplier(coefficient, direction) ==
    CASE coefficient < 0 /\ direction = "worsening" -> <<3, 2>>
      [] coefficient < 0 /\ direction = "stable" -> <<1, 1>>
      [] coefficient < 0 /\ direction = "improving" -> <<4, 5>>
      [] coefficient > 0 /\ direction = "improving" -> <<3, 2>>
      [] coefficient > 0 /\ direction = "stable" -> <<1, 1>>
      [] coefficient > 0 /\ direction = "worsening" -> <<4, 5>>
      [] coefficient = 0 -> <<1, 1>>

C4_WrdsFormula ==
    (op.name = "calculate_wrds" /\ df_fitted # None) =>
        LET exposure == calculate_revenue_exposure(df_fitted[1], op.feature_name)
            direction == calculate_recent_trend(df_fitted[1], op.feature_name).direction
        IN  ret = RMul(RMul(Rat(Abs(op.coefficient), 1), exposure),
                       C4_Multiplier(op.coefficient, direction))

\* a positive coefficient on a categorical feature whose trend is worsening and
\* whose exposure is a proper fraction
C4_Witness ==
    /\ op.name = "calculate_wrds"
    /\ df_fitted # None
    /\ op.coefficient > 0
    /\ op.feature_name = "region"
    /\ calculate_recent_trend(df_fitted[1], "region").direction = "worsening"
    /\ RLt(calculate_revenue_exposure(df_fitted[1], "region"), <<1, 1>>)
    /\ RLt(ret, Rat(op.coefficient, 1))

\* C5: calculate_recent_trend reports the mean, over the segments seen in both
\* windows, of (win rate in the last 2 quarters - win rate in the 2 quarters
\* before); the direction is 'worsening' iff that mean is below -0.05,
\* 'improving' iff it is above +0.05 and 'stable' otherwise, so a mean of
\* exactly -0.05 or +0.05 is 'stable'.
C5_RecentWindow == LastPeriods(2)

C5_PreviousWindow == LastPeriods(4) \ LastPeriods(2)

C5_SegmentsInBoth(col) ==
    {s \in {df.rows[i][col] : i \in RowIndexes} :
        /\ CountRows(col, s, C5_RecentWindow, Outcomes) > 0
        /\ CountRows(col, s, C5_PreviousWindow, Outcomes) > 0}

C5_Delta(col, s) ==
    RSub(Rat(CountRows(col, s, C5_RecentWindow, {"Won"}), CountRows(col, s, C5_RecentWindow, Outcomes)),
         Rat(CountRows(col, s, C5_PreviousWindow, {"Won"}), CountRows(col, s, C5_PreviousWindow, Outcomes)))

C5_MeanDelta(col) ==
    LET both == C5_SegmentsInBoth(col)
        deltas == [s \in both |-> C5_Delta(col, s)]
    IN  IF both = {} THEN NaN ELSE RDivInt(SumOver(deltas, both), Cardinality(both))

C6_TrendFallback ==
    (/\ op.name = "calculate_recent_trend"
     /\ \/ "created_quarter" \notin df.cols
        \/ op.feature_name \notin df.cols
        \/ Cardinality(DistinctPeriods) < 4)
    => ret = [trend_delta |-> <<0, 1>>, direction |-> "stable"]

\* three quarters of history with both outcomes in the two windows a shorter
\* history would compare
C6_Witness ==
    /\ op.name = "calculate_recent_trend"
    /\ op.feature_name = "region"
    /\ "created_quarter" \in df.cols
    /\ Cardinality(DistinctPeriods) = 3
    /\ \E i, j \in RowIndexes : df.rows[i].outcome # df.rows[j].outcome
    /\ ret.direction = "stable"

\* C7: for a feature present in a dataset with positive total amount,
\* calculate_revenue_exposure returns, for a categorical feature, the largest
\* share of the total amount held by one category value, a value in (0, 1],
\* and for a numeric feature exactly 1.0.
C7_RevenueExposure ==
    (/\ op.name = "calculate_revenue_exposure"
     /\ op.feature_name \in df.cols
     /\ AmountIn(Regions) > 0)
    => IF op.feature_name \in {"deal_amount", "sales_cycle_days"}
       THEN ret = <<1, 1>>
       ELSE /\ op.feature_name = "region"
            /\ \E s \in {df.rows[i].region : i \in RowIndexes} : ret = Rat(AmountIn({s}), AmountIn(Regions))
            /\ \A s \in {df.rows[i].region : i \in RowIndexes} : RLe(Rat(AmountIn({s}), AmountIn(Regions)), ret)
            /\ RLt(<<0, 1>>, ret)
            /\ RLe(ret, <<1, 1>>)

\* two regions with different positive amounts
C7_Witness ==
    /\ op.name = "calculate_revenue_exposure"
    /\ op.feature_name = "region"
    /\ AmountIn({"A"}) > AmountIn({"B"})
    /\ AmountIn({"B"}) > 0
    /\ ret = Rat(AmountIn({"A"}), AmountIn(Regions))

\* C8 as stated, for every pair of window sizes: win_rate_delta_by_segment
\* returns an empty result whenever there are fewer distinct periods than
\* recent_quarters + previous_quarters, and otherwise computes on two
\* non-empty windows.
C8_AnyWindowSizes ==
    op.name = "win_rate_delta_by_segment" =>
        IF Cardinality(DistinctPeriods) < op.recent_quarters + op.previous_quarters
        THEN DOMAIN ret.value = {}
        ELSE /\ ret.windows.recent_periods # <<>>
             /\ ret.windows.previous_periods # <<>>

\* C8, amended: win_rate_delta_by_segment returns an empty result whenever there
\* are fewer distinct periods than recent_quarters + previous_quarters;
\* otherwise, for recent_quarters >= 1 and previous_quarters >= 1, both windows
\* are non-empty and the result has an entry for every segment with a deal in
\* one of them.
C8_EmptyIffTooFewPeriods ==
    op.name = "win_rate_delta_by_segment" =>
        LET k == op.recent_quarters + op.previous_quarters
        IN  IF Cardinality(DistinctPeriods) < k
            THEN DOMAIN ret.value = {}
            ELSE (op.recent_quarters >= 1 /\ op.previous_quarters >= 1) =>
                 /\ ret.windows.recent_periods # <<>>
                 /\ ret.windows.previous_periods # <<>>
                 /\ DOMAIN ret.value # {}
                 /\ DOMAIN ret.value =
                        {df.rows[i].region : i \in {j \in RowIndexes :
                                                    df.rows[j].created_quarter \in LastPeriods(k)}}

\* 3 periods with recent = 2, previous = 2
C8_Witness ==
    /\ op.name = "win_rate_delta_by_segment"
    /\ op.recent_quarters = 2
    /\ op.previous_quarters = 2
    /\ Cardinality(DistinctPeriods) = 3
    /\ DOMAIN ret.value = {}

\* C9: for recent_quarters >= 1 and previous_quarters >= 1 with enough
\* distinct periods, the recent window is the last recent_quarters values of the sorted distinct period list, the previous
\* window the previous_quarters values immediately before it; the windows share
\* no period and no period lies between them.
C9_WindowsAdjacentDisjoint ==
    (/\ op.name = "win_rate_delta_by_segment"
     /\ op.recent_quarters >= 1
     /\ op.previous_quarters >= 1
     /\ Cardinality(DistinctPeriods) >= op.recent_quarters + op.previous_quarters)
    => LET rec == ret.windows.recent_periods
           prev == ret.windows.previous_periods
           rq == op.recent_quarters
           pq == op.previous_quarters
       IN  /\ Len(rec) = rq
           /\ Len(prev) = pq
           /\ \A i \in 1..(rq - 1) : rec[i] < rec[i + 1]
           /\ \A i \in 1..(pq - 1) : prev[i] < prev[i + 1]
           /\ Range(rec) = LastPeriods(rq)
           /\ Range(prev) = LastPeriods(rq + pq) \ LastPeriods(rq)
           /\ Range(rec) \cap Range(prev) = {}
           /\ ~\E p \in DistinctPeriods : /\ \A x \in Range(prev) : x < p
                                          /\ \A y \in Range(rec) : p < y

\* more periods than the windows need: the oldest is left out of both
C9_Witness ==
    /\ op.name = "win_rate_delta_by_segment"
    /\ Cardinality(DistinctPeriods) > op.recent_quarters + op.previous_quarters
    /\ op.recent_quarters >= 1
    /\ op.previous_quarters = 2
    /\ Len(ret.windows.previous_periods) = 2
    /\ \E p \in DistinctPeriods : p \notin Range(ret.windows.previous_periods)
                                            \cup Range(ret.windows.recent_periods)

\* C10: with zero Lost deals loss_concentration_ratio returns ratio 0.0, no top
\* segments and an empty loss-share map; when every Lost deal is in one
\* segment it returns ratio 1.0 for every top_n >= 1.
C10_LossSegments == {df.rows[i].region : i \in {j \in RowIndexes : df.rows[j].outcome = "Lost"}}

C10_LossConcentrationEdges ==
    op.name = "loss_concentration_ratio" =>
        /\ C10_LossSegments = {} =>
              /\ ret.concentration_ratio = <<0, 1>>
              /\ ret.top_segments = <<>>
              /\ DOMAIN ret.segment_loss_pct = {}
        /\ (Cardinality(C10_LossSegments) = 1 /\ op.top_n >= 1) =>
              ret.concentration_ratio = <<1, 1>>

\* a dataset of Won deals only, in both regions
C10_Witness ==
    /\ op.name = "loss_concentration_ratio"
    /\ C10_LossSegments = {}
    /\ {df.rows[i].region : i \in RowIndexes} = Regions
    /\ ret.concentration_ratio = <<0, 1>>

\* C11: with at least one Lost deal and top_n >= 1, loss_concentration_ratio
\* returns as top_segments the min(top_n, number of losing segments) segments
\* with the largest loss counts, largest first, and as concentration_ratio
\* their share of all losses; the ratio is 1.0 once top_n reaches the number
\* of losing segments, and a call with a larger top_n on the same dataset
\* never returns a smaller ratio.
C11_LossCount(s) == Cardinality({i \in RowIndexes : df.rows[i].outcome = "Lost" /\ df.rows[i].region = s})

C11_LosingSegments == {s \in LossRegions : C11_LossCount(s) > 0}

C11_TotalLosses == Cardinality({i \in RowIndexes : df.rows[i].outcome = "Lost"})

RECURSIVE C11_ListedLosses(_)
C11_ListedLosses(segs) ==
    IF segs = <<>> THEN 0 ELSE C11_LossCount(Head(segs)) + C11_ListedLosses(Tail(segs))

C11_TopN ==
    (op.name = "loss_concentration_ratio" /\ C11_TotalLosses >= 1 /\ op.top_n >= 1) =>
        LET top == ret.top_segments
        IN  /\ Len(top) = Min2(op.top_n, Cardinality(C11_LosingSegments))
            /\ Range(top) \subseteq C11_LosingSegments
            /\ \A j, k \in 1..Len(top) : j # k => top[j] # top[k]
            /\ \A k \in 1..(Len(top) - 1) : C11_LossCount(top[k]) >= C11_LossCount(top[k + 1])
            /\ \A s \in C11_LosingSegments \ Range(top) :
                  \A k \in 1..Len(top) : C11_LossCount(s) <= C11_LossCount(top[k])
            /\ ret.concentration_ratio = Rat(C11_ListedLosses(top), C11_TotalLosses)
            /\ op.top_n >= Cardinality(C11_LosingSegments) => ret.concentration_ratio = <<1, 1>>

C11_NonDecreasing ==
    (/\ op.name = "loss_concentration_ratio"
     /\ op'.name = "loss_concentration_ratio"
     /\ C11_TotalLosses >= 1
     /\ 1 <= op.top_n
     /\ op.top_n <= op'.top_n)
    => RLe(ret.concentration_ratio, ret'.concentration_ratio)

C11_LossConcentration == []C11_TopN /\ [][C11_NonDecreasing]_vars

\* three losing segments with counts 2, 1, 1 and top_n = 2: a tie at the cut
C11_Witness ==
    /\ op.name = "loss_concentration_ratio"
    /\ op.top_n = 2
    /\ C11_TotalLosses = 4
    /\ Cardinality(C11_LosingSegments) = 3
    /\ ret.concentration_ratio = <<3, 4>>

\* Vocabulary of C12: the deals a returned value is about (all of them, or
\* those of one region), and whether the index is available for them.
C12_Deals(scope) == SelectSeq(df.rows, LAMBDA r : r.region \in scope)

C12_Unavailable(scope) ==
    \/ ~\E i \in 1..Len(C12_Deals(scope)) : C12_Deals(scope)[i].outcome = "Won"
    \/ ~\E i \in 1..Len(C12_Deals(scope)) : C12_Deals(scope)[i].outcome = "Lost"
    \/ MedianCycle(C12_Deals(scope), "Won") = <<0, 1>>

\* the scopes of the values a call returned, each with its value
C12_Returned ==
    IF op.groupby_cols = <<>>
    THEN {[scope |-> Regions, value |-> ret]}
    ELSE {[scope |-> {s}, value |-> ret[s]] : s \in DOMAIN ret}

\* C12 as stated: deal_friction_index, ungrouped and per group, returns NaN
\* whenever the Won or the Lost subset is empty or the Won median is zero,
\* and a strictly positive value in every other case.
C12_StrictlyPositive ==
    op.name = "deal_friction_index" =>
        \A v \in C12_Returned :
            IF C12_Unavailable(v.scope) THEN IsNaN(v.value) ELSE RLt(<<0, 1>>, v.value)

\* C12, amended: deal_friction_index, ungrouped and per group, returns NaN
\* whenever the Won or the Lost subset is empty or the Won median is zero; in
\* every other case it returns the Lost median over the Won median, which is
\* not negative and is strictly positive unless the Lost median is zero.
C12_AvailableIffBothSides ==
    op.name = "deal_friction_index" =>
        /\ op.groupby_cols # <<>> => DOMAIN ret = {df.rows[i].region : i \in RowIndexes}
        /\ \A v \in C12_Returned :
              IF C12_Unavailable(v.scope) THEN IsNaN(v.value)
              ELSE LET lost == MedianCycle(C12_Deals(v.scope), "Lost")
                       won == MedianCycle(C12_Deals(v.scope), "Won")
                   IN  /\ v.value = Rat(lost[1] * won[2], lost[2] * won[1])
                       /\ RLe(<<0, 1>>, v.value)
                       /\ lost # <<0, 1>> => RLt(<<0, 1>>, v.value)

\* a grouped call where one region has no Won deal and the other has a
\* friction index above 1
C12_Witness ==
    /\ op.name = "deal_friction_index"
    /\ op.groupby_cols # <<>>
    /\ DOMAIN ret = Regions
    /\ IsNaN(ret["A"])
    /\ RLt(<<1, 1>>, ret["B"])

\* C13: on a dataset of deals with non-negative amounts,
\* revenue_weighted_win_rate(df) is a number between 0 and 1, and equals the
\* share of Won deals (win_rate) whenever all the amounts are equal, all zero
\* included.
C13_RateWithinBoundsAndEqualAmounts ==
    (op.name = "revenue_weighted_win_rate" /\ op.groupby_cols = <<>> /\ df.rows # <<>>) =>
        /\ ~ret.raised
        /\ RLe(<<0, 1>>, ret.value)
        /\ RLe(ret.value, <<1, 1>>)
        /\ (\A i, j \in RowIndexes : df.rows[i].deal_amount = df.rows[j].deal_amount)
           => ret.value = Rat(Cardinality({i \in RowIndexes : df.rows[i].outcome = "Won"}),
                              Len(df.rows))

\* C14: win_rate without grouping on an empty deal collection raises; with
\* grouping keys the result has an entry for exactly the groups that have
\* deals.
C14_EmptyRaises ==
    op.name = "win_rate" =>
        IF op.groupby_cols = <<>>
        THEN df.rows = <<>> => ret.raised
        ELSE /\ ~ret.raised
             /\ DOMAIN ret.value = {df.rows[i].region : i \in RowIndexes}

\* C15: when the region encoder has been fitted, a prepare_features call on a
\* dataset with a region value outside its classes does not fail and encodes
\* every such value with the code of the literal 'unknown'; the classes grow
\* by exactly one entry if 'unknown' was not among them and stay as they are
\* if it was.
C15_Unseen(i) == df.rows[i].region \notin Range(label_encoders["region"])

C15_UnknownAbsorbsUnseen ==
    (/\ op.name = "idle"
     /\ op'.name = "prepare_features"
     /\ "region" \in df.cols
     /\ "region" \in DOMAIN label_encoders
     /\ \E i \in RowIndexes : C15_Unseen(i))
    => /\ ~ret'.raised
       /\ "unknown" \in Range(label_encoders'["region"])
       /\ \A i \in RowIndexes :
             C15_Unseen(i) => label_encoders'["region"][ret'.X[i]["region"] + 1] = "unknown"
       /\ \A i, j \in RowIndexes :
             (C15_Unseen(i) /\ df.rows[j].region = "unknown")
             => ret'.X[i]["region"] = ret'.X[j]["region"]
       /\ IF "unknown" \in Range(label_encoders["region"])
          THEN label_encoders' = label_encoders
          ELSE /\ Len(label_encoders'["region"]) = Len(label_encoders["region"]) + 1
               /\ DOMAIN label_encoders' = DOMAIN label_encoders

C15_UnseenEncodedAsUnknown == [][C15_UnknownAbsorbsUnseen]_vars

\* an encoder fitted on 'A' alone has met 'Z': 'Z' got code 1, the code of the
\* 'unknown' that was appended
C15_Witness ==
    /\ op.name = "prepare_features"
    /\ ~ret.raised
    /\ "region" \in DOMAIN label_encoders
    /\ label_encoders["region"] = <<"A", "unknown">>
    /\ \E i \in RowIndexes : df.rows[i].region = "Z" /\ ret.X[i]["region"] = 1

\* C16: over any sequence of prepare_features and fit calls on one analyzer, an
\* attribute that has an encoder keeps it, every class keeps its position (its
\* code) and none is removed; and every value of a dataset that is among the
\* classes is encoded as its position.
C16_ClassesOnlyAppended ==
    \A f \in DOMAIN label_encoders :
        /\ f \in DOMAIN label_encoders'
        /\ Len(label_encoders[f]) <= Len(label_encoders'[f])
        /\ \A i \in 1..Len(label_encoders[f]) : label_encoders'[f][i] = label_encoders[f][i]

C16_EncodedAsPosition ==
    (op.name = "prepare_features" /\ ~ret.raised /\ "region" \in df.cols) =>
        /\ \A i, j \in 1..Len(label_encoders["region"]) :
              i # j => label_encoders["region"][i] # label_encoders["region"][j]
        /\ \A i \in RowIndexes :
              df.rows[i].region \in Range(label_encoders["region"])
              => label_encoders["region"][ret.X[i]["region"] + 1] = df.rows[i].region

C16_MappingOnlyGrows == []C16_EncodedAsPosition /\ [][C16_ClassesOnlyAppended]_vars

\* an encoder fitted on 'A' and 'Z' that has since gained 'unknown' encodes a
\* later dataset holding 'Z' and the literal 'unknown' as 1 and 2
C16_Witness ==
    /\ op.name = "prepare_features"
    /\ ~ret.raised
    /\ "region" \in DOMAIN label_encoders
    /\ label_encoders["region"] = <<"A", "Z", "unknown">>
    /\ Len(df.rows) = 2
    /\ df.rows[1].region = "Z" /\ ret.X[1]["region"] = 1
    /\ df.rows[2].region = "unknown" /\ ret.X[2]["region"] = 2

\* C17: once the analyzer is fitted, feature_names equals, element by element
\* and in order, the feature column of the coefficients table, and from then
\* on feature_names and coefficients change only in a fit that succeeds.
C17_NamesAreCoefficientFeatures ==
    coefficients # <<>> =>
        feature_names = [i \in 1..Len(coefficients[1]) |-> coefficients[1][i].feature]

C17_ChangedOnlyByFit ==
    (coefficients # <<>> /\ (feature_names' # feature_names \/ coefficients' # coefficients))
    => (op'.name = "fit" /\ ~ret'.raised)

C17_FeatureNamesMatchCoefficients ==
    []C17_NamesAreCoefficientFeatures /\ [][C17_ChangedOnlyByFit]_vars

C19_Compared == op.name = "compare_periods" /\ ~ret.raised

C19_Listed == {ret.changed_drivers[i].feature : i \in 1..Len(ret.changed_drivers)}

C19_BaselineCoef(f) == GetOrZero(NegativeFeatures(ret.baseline_drivers), f)

C19_RecentCoef(f) == GetOrZero(NegativeFeatures(ret.recent_drivers), f)

C19_NegativeInEither ==
    DOMAIN NegativeFeatures(ret.baseline_drivers) \cup DOMAIN NegativeFeatures(ret.recent_drivers)

\* C19: after compare_periods, a feature is in changed_drivers exactly when it
\* is a negative driver of the baseline or of the recent period and the two
\* coefficients the comparison holds for it (the one in each period's list of
\* negative drivers, 0 for a period whose list does not have it) differ by
\* more than 0.1; a difference of exactly 0.1 is not listed. An entry carries
\* these two coefficients, change = recent_coef - baseline_coef, direction
\* 'worsened' when recent_coef < baseline_coef and 'improved' otherwise, and no
\* feature is listed twice.
C19_ChangedDriversExactlyAboveThreshold ==
    C19_Compared =>
        /\ \A f \in Range(CategoricalFeatures \o NumericalFeatures) :
              f \in C19_Listed <=>
                  /\ f \in C19_NegativeInEither
                  /\ Abs(C19_BaselineCoef(f) - C19_RecentCoef(f)) > ChangeThreshold
        /\ C19_Listed \subseteq Range(CategoricalFeatures \o NumericalFeatures)
        /\ \A i \in 1..Len(ret.changed_drivers) :
              LET e == ret.changed_drivers[i]
              IN  /\ e.baseline_coef = C19_BaselineCoef(e.feature)
                  /\ e.recent_coef = C19_RecentCoef(e.feature)
                  /\ e.change = e.recent_coef - e.baseline_coef
                  /\ e.direction = (IF e.recent_coef < e.baseline_coef THEN "worsened"
                                    ELSE "improved")
        /\ \A i, j \in 1..Len(ret.changed_drivers) :
              ret.changed_drivers[i].feature = ret.changed_drivers[j].feature => i = j

\* a comparison that lists a worsened and an improved feature and leaves out
\* a negative driver whose coefficients differ by exactly 0.1
C19_Witness ==
    /\ C19_Compared
    /\ \E i, j \in 1..Len(ret.changed_drivers) :
          /\ ret.changed_drivers[i].direction = "worsened"
          /\ ret.changed_drivers[j].direction = "improved"
    /\ \E f \in C19_NegativeInEither :
          /\ Abs(C19_BaselineCoef(f) - C19_RecentCoef(f)) = ChangeThreshold
          /\ f \notin C19_Listed

\* ---------------------------------------------------------------- C20
\* the coefficient of feature f in a fitted model's coefficient table
C20_ModelCoef(table, f) ==
    (CHOOSE r \in Range(table) : r.feature = f).coefficient

C20_InModel(table, f) == \E r \in Range(table) : r.feature = f

\* C20: in every entry of changed_drivers, baseline_coef is the feature's
\* coefficient in the baseline model and recent_coef its coefficient in the
\* recent model, whenever that model has the feature, also for a feature that
\* is a negative driver in only one of the two periods.
C20_EntriesCarryModelCoefficients ==
    C19_Compared /\ coefficients # None =>
        \A i \in 1..Len(ret.changed_drivers) :
            LET e == ret.changed_drivers[i]
            IN  /\ C20_InModel(ret.baseline_analyzer.coefficients, e.feature) =>
                      e.baseline_coef = C20_ModelCoef(ret.baseline_analyzer.coefficients, e.feature)
                /\ C20_InModel(coefficients[1], e.feature) =>
                      e.recent_coef = C20_ModelCoef(coefficients[1], e.feature)

\* ---------------------------------------------------------------- C21
\* the dataset breaks the data contract in one of the ways the claim lists
C21_OffContract ==
    \/ \E c \in Range(CriticalCols) : c \notin df.cols
    \/ \E i \in 1..Len(df.rows) :
          LET r == df.rows[i]
          IN  \/ \E c \in Range(CriticalCols) : c \in df.cols /\ r[c] = None
              \/ "outcome" \in df.cols /\ r.outcome # None /\ r.outcome[1] \notin {"Won", "Lost"}
              \/ "deal_amount" \in df.cols /\ r.deal_amount # None /\ r.deal_amount[1] < 0
              \/ /\ {"created_date", "closed_date"} \subseteq df.cols
                 /\ r.created_date # None /\ r.closed_date # None
                 /\ r.closed_date[1] < r.created_date[1]
              \/ /\ "sales_cycle_days" \in df.cols /\ r.sales_cycle_days # None
                 /\ (r.sales_cycle_days[1] < 0 \/ r.sales_cycle_days[1] > 365)

C21_Reported ==
    op.name = "validate_data" =>
        /\ C21_OffContract => ~ret.is_valid /\ Len(ret.issues) >= 1
        /\ ret.is_valid <=> ret.issues = <<>>

C21_DatasetKept == op'.name = "validate_data" => df' = df

\* C21: validate_data returns is_valid = false and at least one issue whenever
\* a critical column is missing or has a null, an outcome is neither Won nor
\* Lost, an amount is negative, a deal closed before it was created, or a
\* cycle length is negative or over 365 days; is_valid is true exactly when
\* there is no issue; the dataset is left as it was.
C21_ValidationDetectsViolations == []C21_Reported /\ [][C21_DatasetKept]_vars

\* ---------------------------------------------------------------- C22
C22_Called == op.name = "get_action_mapping"

C22_KnownName(k) == StrLower(op.feature_name) = ActionMap[k].feature_type

C22_Unrelated ==
    /\ op.feature_name # <<>>
    /\ \A k \in 1..Len(ActionMap) :
          /\ ~StrIn(ActionMap[k].feature_type, StrLower(op.feature_name))
          /\ ~StrIn(StrLower(op.feature_name), ActionMap[k].feature_type)

C22_OwnEntryOrFallback ==
    C22_Called =>
        /\ \A k \in 1..Len(ActionMap) :
              C22_KnownName(k) =>
                  /\ ret.likely_issues = ActionMap[k].likely_issues
                  /\ ret.suggested_actions = ActionMap[k].suggested_actions
                  /\ Len(ret.likely_issues) \in 3..4
                  /\ Len(ret.suggested_actions) \in 3..4
        /\ C22_Unrelated =>
              /\ ret = DefaultActions
              /\ Len(ret.likely_issues) = 3
              /\ Len(ret.suggested_actions) = 3

C22_CoefficientIgnored ==
    C22_Called /\ op'.name = "get_action_mapping" /\ op'.feature_name = op.feature_name
        => ret' = ret

\* C22: get_action_mapping returns, for each of the six known feature names in
\* any letter case, that attribute's own table entry, with 3 to 4 likely issues
\* and 3 to 4 suggested actions; for a non-empty name that has no table key in
\* it and is in no table key, the fallback with exactly 3 issues and 3 actions;
\* asking again with another coefficient returns the same.
C22_ActionMapping == []C22_OwnEntryOrFallback /\ [][C22_CoefficientIgnored]_vars

\* cycle_bucket, the last key of the table, written with upper-case letters and
\* asked for a second time with another coefficient
C22_Witness ==
    /\ C22_Called
    /\ C22_KnownName(Len(ActionMap))
    /\ op.feature_name # StrLower(op.feature_name)
    /\ op.coefficient > 0
    /\ ret.likely_issues = ActionMap[Len(ActionMap)].likely_issues

\* ---------------------------------------------------------------- C23
\* the position of a bucket in the order of its labels
C23_Index(bucket, labels) == CHOOSE k \in 1..Len(labels) : labels[k] = bucket[1]

C23_HasBucket(bucket, labels) ==
    bucket # None /\ \E k \in 1..Len(labels) : labels[k] = bucket[1]

C23_Bucketed ==
    op.name = "add_derived_features" =>
        /\ Len(ret.rows) = Len(df.rows)
        /\ \A i \in 1..Len(df.rows) :
              /\ df.rows[i].deal_amount >= 0 => C23_HasBucket(ret.rows[i].acv_bucket, AcvLabels)
              /\ df.rows[i].sales_cycle_days >= 0 =>
                    C23_HasBucket(ret.rows[i].cycle_bucket, CycleLabels)
              /\ ret.rows[i].is_won = 1 <=> df.rows[i].outcome = "Won"
        /\ \A i, j \in 1..Len(df.rows) :
              /\ (/\ C23_HasBucket(ret.rows[i].acv_bucket, AcvLabels)
                  /\ C23_HasBucket(ret.rows[j].acv_bucket, AcvLabels)
                  /\ df.rows[i].deal_amount <= df.rows[j].deal_amount)
                    => C23_Index(ret.rows[i].acv_bucket, AcvLabels)
                          <= C23_Index(ret.rows[j].acv_bucket, AcvLabels)
              /\ (/\ C23_HasBucket(ret.rows[i].cycle_bucket, CycleLabels)
                  /\ C23_HasBucket(ret.rows[j].cycle_bucket, CycleLabels)
                  /\ df.rows[i].sales_cycle_days <= df.rows[j].sales_cycle_days)
                    => C23_Index(ret.rows[i].cycle_bucket, CycleLabels)
                          <= C23_Index(ret.rows[j].cycle_bucket, CycleLabels)

C23_InputKept == op'.name = "add_derived_features" => df' = df

\* C23: add_derived_features gives every deal with amount >= 0 one of the four
\* amount buckets and every deal with cycle length >= 0 one of the four cycle
\* buckets, amount 0 and cycle length 0 included, with the bucket index
\* non-decreasing in the value; is_won is 1 iff the outcome is Won; the input
\* dataset is left as it was.
C23_EveryDealBucketed == []C23_Bucketed /\ [][C23_InputKept]_vars

\* ---------------------------------------------------------------- C24
C24_StateKept == op'.name = "get_drivers" => analyzer' = analyzer

C24_SameAnswer ==
    (op.name = "get_drivers" /\ op' = op /\ analyzer' = analyzer) => ret' = ret

C25_Periods == SortedInts(Unique(df, "created_quarter"))

\* the mean, over the periods of a window, of the segment's win rate in the period
C25_Mean(window, s) ==
    ColumnMean(SegmentWinRate(df, "region", "created_quarter"), window, s)

C25_Drop(s) ==
    RSub(C25_Mean(SubSeq(C25_Periods, 1, Len(C25_Periods) - 2), s),
         C25_Mean(SubSeq(C25_Periods, Len(C25_Periods) - 1, Len(C25_Periods)), s))

\* C25: generate_segment_insight compares, per segment, the mean win rate of
\* the last 2 periods with the mean over all earlier periods, the two sets of
\* periods being disjoint whenever there are at least 2 periods, and reports
\* the segment with the largest (earlier mean - recent mean); with fewer than
\* 2 periods or fewer than 2 segment values it returns the insufficient-data
\* message.
C25_LastTwoAgainstEarlier ==
    op.name = "generate_segment_insight" =>
        IF Len(C25_Periods) < 2 \/ Cardinality(Unique(df, "region")) < 2
        THEN ret = InsufficientData
        ELSE /\ ret # InsufficientData
             /\ Range(ret.recent_periods) \cap Range(ret.earlier_periods) = {}
             /\ ret.recent_periods = SubSeq(C25_Periods, Len(C25_Periods) - 1, Len(C25_Periods))
             /\ Len(C25_Periods) > 2 =>
                   /\ ret.earlier_periods = SubSeq(C25_Periods, 1, Len(C25_Periods) - 2)
                   /\ ret.worst_segment \in Unique(df, "region")
                   /\ ret.win_rate_decline = C25_Drop(ret.worst_segment)
                   /\ \A s \in Unique(df, "region") : RLe(C25_Drop(s), ret.win_rate_decline)

\* ---------------------------------------------------------------- C26
C26_Consistent(d) ==
    d.wrds = RMul(RMul(Rat(Abs(d.coefficient), 1), d.revenue_exposure),
                  C4_Multiplier(d.coefficient, d.trend_direction))

\* C26: every driver record get_drivers(include_wrds=True) returns has
\* wrds = |coefficient| x its revenue_exposure x the multiplier of the sign of
\* its coefficient and its trend_direction, on an analyzer fitted in this
\* process and on one load_model returned.
C26_RecordsSelfConsistent ==
    (op.name = "get_drivers" /\ op.include_wrds) =>
        /\ \A i \in 1..Len(ret.positive_drivers) : C26_Consistent(ret.positive_drivers[i])
        /\ \A i \in 1..Len(ret.negative_drivers) : C26_Consistent(ret.negative_drivers[i])

\* ---------------------------------------------------------------- C27
\* C27: a fit that raises leaves df_fitted, feature_names, the category
\* mappings and the coefficients as they were before the call.
C27_FailedFitKeepsState ==
    [][(op'.name = "fit" /\ ret'.raised) =>
          /\ df_fitted' = df_fitted
          /\ feature_names' = feature_names
          /\ label_encoders' = label_encoders
          /\ coefficients' = coefficients]_vars

\* ---------------------------------------------------------------- C28
\* every categorical column of the dataset in hand has an encoder, and every
\* value of the column is among the encoder's classes
C28_AllKnown ==
    \A f \in Range(CategoricalFeatures) :
        f \in df.cols =>
            /\ f \in DOMAIN label_encoders
            /\ \A i \in 1..Len(df.rows) : df.rows[i][f] \in Range(label_encoders[f])

\* C28: a prepare_features call on an analyzer whose encoders are built, with
\* a dataset all of whose categorical values are in the mappings, leaves every
\* mapping as it was: no 'unknown' entry is added.
C28_KnownValuesKeepMapping ==
    [][(op'.name = "prepare_features" /\ C28_AllKnown) => label_encoders' = label_encoders]_vars

\* ---------------------------------------------------------------- C29
\* C29: for every dataset and feature, the trend_delta calculate_recent_trend
\* returns is a finite number in [-1, 1], also when segment values occur in
\* only one of the two windows, and the direction is the one the thresholds
\* of -0.05 and +0.05 give that number.
C29_TrendDeltaFinite ==
    op.name = "calculate_recent_trend" =>
        /\ ~IsNaN(ret.trend_delta)
        /\ RLe(<<-1, 1>>, ret.trend_delta)
        /\ RLe(ret.trend_delta, <<1, 1>>)
        /\ ret.direction = (IF RLt(ret.trend_delta, <<-1, 20>>) THEN "worsening"
                            ELSE IF RLt(<<1, 20>>, ret.trend_delta) THEN "improving"
                            ELSE "stable")

\* ---------------------------------------------------------------- C30
C30_DescendingWrds(drivers) ==
    \A i \in 1..(Len(drivers) - 1) : RLe(drivers[i + 1].wrds, drivers[i].wrds)

\* C30: with include_wrds=False, get_drivers reports wrds = |coefficient| for
\* every driver, and positive_drivers and negative_drivers are both in
\* descending order of that wrds.
C30_PlainRankingDescending ==
    (op.name = "get_drivers" /\ ~op.include_wrds) =>
        /\ \A i \in 1..Len(ret.positive_drivers) :
              ret.positive_drivers[i].wrds = Rat(Abs(ret.positive_drivers[i].coefficient), 1)
        /\ \A i \in 1..Len(ret.negative_drivers) :
              ret.negative_drivers[i].wrds = Rat(Abs(ret.negative_drivers[i].coefficient), 1)
        /\ C30_DescendingWrds(ret.positive_drivers)
        /\ C30_DescendingWrds(ret.negative_drivers)

====
